---- MODULE Spec2Model ----
(***************************************************************************)
(* Neuro-Fade: the score aggregator (NeuroFadeDetector) and the effect     *)
(* controller (FadeEngine).                                                *)
(*                                                                         *)
(* JavaScript numbers are modelled in fixed point:                         *)
(*   - effect channel values and intensities in millionths (EffectUnit     *)
(*     units per 1.0),                                                     *)
(*   - scores in ten-thousandths of a point (ScoreUnit units per point),   *)
(*   - the numeric literals of the source in thousandths or hundredths,    *)
(* every product being rounded to the nearest unit.  Rounding of IEEE      *)
(* doubles below these resolutions is not represented.                     *)
(***************************************************************************)
EXTENDS Integers, Sequences, FiniteSets, TLC

VARIABLES
    currentEffects,   \* FadeEngine.currentEffects
    targetEffects,    \* FadeEngine.targetEffects
    isAnimating,      \* FadeEngine.isAnimating
    animationFrame,   \* a requestAnimationFrame(step) callback is pending
    breatheMode,      \* FadeEngine.breatheMode
    processors,       \* AudioProcessor.activeProcessors, one entry per video
    playListeners,    \* the videos whose once-only 'play' listener is armed
    playbackRates,    \* video.playbackRate of each registered video (millionths)
    breatheTimers,    \* pending setTimeout(..., 5000) callbacks of breathe(),
                      \* oldest first; each holds its closure's savedTarget
    dopamineScore,    \* NeuroFadeDetector.dopamineScore
    scoreUpdates,     \* the scores the onScoreUpdate calls of the last score
                      \* tick carried, in order
    sensitivity,      \* NeuroFadeDetector.sensitivity (thousandths)
    enabled,          \* NeuroFadeDetector.enabled / content script's enabled
    now,              \* Date.now(), milliseconds
    startTime,        \* NeuroFadeDetector.startTime
    sceneCuts,        \* FrameAnalyzer.sceneCuts: timestamps of detected cuts
    motionScores,     \* FrameAnalyzer.motionScores (millionths)
    scrollEvents,     \* NeuroFadeDetector.scrollEvents: {time, velocity, dy}
    domHeightChanges, \* NeuroFadeDetector.domHeightChanges: timestamps
    videos,           \* NeuroFadeDetector.videos with each element's
                      \* paused / ended flags
    previousHistogram,\* FrameAnalyzer.previousHistogram (<< >> for null)
    lastFrameData,    \* FrameAnalyzer.lastFrameData (<< >> for null)
    frameCount,       \* FrameAnalyzer.frameCount
    videoElement,     \* the argument of the last analyzeFrame call
    frameResult,      \* what the last analyzeFrame call returned
    lastScrollY,      \* NeuroFadeDetector.lastScrollY
    lastScrollTime,   \* NeuroFadeDetector.lastScrollTime
    lastDOMHeight,    \* NeuroFadeDetector.lastDOMHeight
    isActive,         \* NeuroFadeDetector.isActive
    intervals,        \* how many start() calls have their three intervals
                      \* (score, frame, DOM height) in _intervals and running
    observers,        \* connected MutationObservers in _observers
    scrollListeners,  \* the scroll handlers attached to window, each named by
                      \* the start() call that created it
    scrollHandler,    \* NeuroFadeDetector._scrollHandler (0 for undefined)
    nStarts,          \* number of start() calls so far
    detections,       \* how often onVideoDetected ran for each video
    available,        \* NPUBridge.available
    backend,          \* NPUBridge.backend
    context,          \* NPUBridge.context: the device of the MLContext
    graph,            \* NPUBridge.graph is not null
    initialized,      \* NPUBridge.initialized
    initPc,           \* where the pending init() call stands
    tried,            \* the createContext attempts of init()'s selection
    initReturns,      \* the values init() calls resolved to, in order
    framesProcessed,  \* NPUBridge.framesProcessed
    distance,         \* what the last computeHistogramDistance call settled to
    computing,        \* the calls suspended at await graph.compute
    storedEnabled,    \* nf_enabled in chrome.storage.local
    storedSensitivity, \* nf_sensitivity in chrome.storage.local
    detectorExists,   \* the content script's detector and fadeEngine are set
    mainToggle,       \* the popup's mainToggle.checked
    sliderPosition,   \* the popup's sensitivitySlider.value
    popupOpen,        \* the popup page is open
    popupTasks,       \* popup handlers waiting for chrome.tabs.query
    inbox,            \* messages sent to the content script, not yet handled
    totalInterventions, \* nf_total_interventions in chrome.storage.local
    trackSessions,    \* the service worker's trackSession calls that have not
                      \* returned yet, oldest first
    nTracked,         \* UPDATE_SCORE messages handled so far whose score was
                      \* at least 25
    call,             \* the operation that ran last
    nCalls,           \* number of score ticks and control messages so far
    nTicks,           \* number of convergence ticks run so far
    nEvents           \* number of intake events and lifecycle calls so far

vars == <<currentEffects, targetEffects, isAnimating, animationFrame,
          breatheMode, breatheTimers, processors, playListeners,
          playbackRates, dopamineScore, scoreUpdates, sensitivity, enabled,
          now, startTime, sceneCuts, motionScores, scrollEvents,
          domHeightChanges, videos, previousHistogram, lastFrameData,
          frameCount, videoElement, frameResult, lastScrollY, lastScrollTime,
          lastDOMHeight, isActive, intervals, observers, scrollListeners,
          scrollHandler, nStarts, detections, available, backend, context, graph,
          initialized, initPc, tried, initReturns, framesProcessed, distance,
          computing, storedEnabled, storedSensitivity, detectorExists,
          mainToggle, sliderPosition, popupOpen, popupTasks, inbox,
          totalInterventions, trackSessions, nTracked,
          call, nCalls, nTicks, nEvents>>

\* the audio pipelines and the listeners registerVideo leaves on the videos,
\* and the playback rates the engine sets on them
audioVars == <<processors, playListeners, playbackRates>>

fadeVars == <<currentEffects, targetEffects, isAnimating, animationFrame,
              breatheMode, breatheTimers, audioVars>>

\* FrameAnalyzer's state and the record of its last call
analyzerVars == <<sceneCuts, motionScores, previousHistogram, lastFrameData,
                  frameCount, videoElement, frameResult>>

\* the scroll and DOM-height tracking of NeuroFadeDetector
scrollVars == <<scrollEvents, domHeightChanges, lastScrollY, lastScrollTime,
                lastDOMHeight>>

\* what start() and stop() manage
lifeVars == <<isActive, intervals, observers, scrollListeners, scrollHandler,
              nStarts, detections>>

\* NPUBridge
bridgeVars == <<available, backend, context, graph, initialized, initPc,
                tried, initReturns, framesProcessed, distance, computing>>

\* the persisted settings
settingsVars == <<storedEnabled, storedSensitivity>>

\* the popup page and the messages it has sent
popupVars == <<mainToggle, sliderPosition, popupOpen, popupTasks, inbox>>

\* the service worker's session tracking
backgroundVars == <<totalInterventions, trackSessions, nTracked>>

controlVars == <<settingsVars, detectorExists, popupVars, backgroundVars>>

\* the page as the detector sees it
pageVars == <<now, startTime, videos, analyzerVars, scrollVars, lifeVars,
              bridgeVars, nEvents>>

intakeVars == <<pageVars, controlVars>>

\* the score and its notifications
scoreVars == <<dopamineScore, scoreUpdates>>

detectorVars == <<scoreVars, sensitivity, enabled, intakeVars>>

\* everything but the NPUBridge's fields and the record of the last call
besideBridge == <<fadeVars, scoreVars, sensitivity, enabled, controlVars, now,
                  startTime, videos, analyzerVars, scrollVars, lifeVars,
                  nCalls, nTicks, nEvents>>

----------------------------------------------------------------------------
(* Fixed-point arithmetic *)

EffectUnit == 1000 * 1000

ScoreUnit == 100 * 100

Abs(x) == IF x < 0 THEN -x ELSE x

Min(a, b) == IF a < b THEN a ELSE b

Max(a, b) == IF a > b THEN a ELSE b

\* a / b rounded to the nearest integer (b > 0)
RoundDiv(a, b) ==
    IF a >= 0 THEN (a + (b \div 2)) \div b
              ELSE -(((-a) + (b \div 2)) \div b)

\* x * (m / 1000): product of a fixed-point value and a literal in thousandths
MulMilli(x, m) == RoundDiv(x * m, 1000)

\* x * (p / 100): product of a fixed-point value and a literal in hundredths
MulPct(x, p) == RoundDiv(x * p, 100)

\* a literal given in thousandths, as an effect value
Milli(m) == m * (EffectUnit \div 1000)

\* a score in whole points, as a score value
Points(p) == p * ScoreUnit

----------------------------------------------------------------------------
(* NEURO_FADE_CONSTANTS *)

LOW == 25
MODERATE == 45
HIGH == 65
CRITICAL == 85

\* TIMING, milliseconds
FRAME_SAMPLE_INTERVAL == 500
SCORE_UPDATE_INTERVAL == 1000
SCENE_CUT_WINDOW == 3000

\* SCENE_CUT: HIGH_CUT_RATE in cuts per 10 s, MOTION_THRESHOLD in thousandths
HIGH_CUT_RATE == 8
MOTION_THRESHOLD == 250

\* SCROLL
VELOCITY_THRESHOLD == 800
RAPID_SCROLL_COUNT == 5
RAPID_SCROLL_WINDOW == 10000
INFINITE_SCROLL_THRESHOLD == 20

\* SCORE_WEIGHTS, in hundredths
W_SCENE_CUTS == 30
W_SCROLL_VELOCITY == 25
W_TIME_ON_PAGE == 20
W_CONTENT_CHANGES == 15
W_VIDEO_COUNT == 10

\* EFFECTS ranges, in thousandths
GRAYSCALE_min == 0
GRAYSCALE_max == 1000
PLAYBACK_RATE_min == 850
PLAYBACK_RATE_max == 1000
BRIGHTNESS_min == 700
BRIGHTNESS_max == 1000
SATURATION_min == 200
SATURATION_max == 1000
BLUR_min == 0
BLUR_max == 1500

Channels == {"grayscale", "saturation", "brightness", "blur",
             "playbackRate", "audioIntensity"}

Effects(g, s, b, bl, p, a) ==
    [grayscale |-> g, saturation |-> s, brightness |-> b, blur |-> bl,
     playbackRate |-> p, audioIntensity |-> a]

----------------------------------------------------------------------------
(* Bounds of the model *)

\* control-surface calls (score updates, breathe, toggle) per behaviour
MaxCalls == 3

\* convergence ticks per behaviour
MaxTicks == 10

\* scores handed to update() in Spec
ScoreInputs == {Points(0), Points(30), Points(50), Points(70), Points(100)}

----------------------------------------------------------------------------
(* FadeEngine *)

\* the literal { grayscale: 0, saturation: 1, brightness: 1, blur: 0,
\*               playbackRate: 1, audioIntensity: 0 }
NeutralEffects ==
    Effects(Milli(0), Milli(1000), Milli(1000), Milli(0), Milli(1000), Milli(0))

\* breathe() with the blur entry of the literal left out of the preset
BreatheEffectsNoBlur ==
    Effects(Milli(600), Milli(400), Milli(850), Milli(0), Milli(900), Milli(500))

\* the literal of breathe(): the calming state
BreatheEffects ==
    Effects(Milli(600), Milli(400), Milli(850), Milli(800), Milli(900), Milli(500))

\* (dopamineScore - from) / (to - from), as an effect value
SegmentRatio(score, from, to) ==
    RoundDiv((score - Points(from)) * (EffectUnit \div ScoreUnit), to - from)

\* update() with the third segment starting at 0.65 instead of 0.60
RawIntensityJump(score) ==
    IF score < Points(MODERATE)
      THEN MulPct(SegmentRatio(score, LOW, MODERATE), 25)
    ELSE IF score < Points(HIGH)
      THEN Milli(250) + MulPct(SegmentRatio(score, MODERATE, HIGH), 35)
    ELSE IF score < Points(CRITICAL)
      THEN Milli(650) + MulPct(SegmentRatio(score, HIGH, CRITICAL), 25)
    ELSE Milli(850) + MulPct(SegmentRatio(score, CRITICAL, 100), 15)

\* update(): intensity for a score at or above T.LOW, before Math.min
RawIntensity(score) ==
    IF score < Points(MODERATE)
      THEN MulPct(SegmentRatio(score, LOW, MODERATE), 25)
    ELSE IF score < Points(HIGH)
      THEN Milli(250) + MulPct(SegmentRatio(score, MODERATE, HIGH), 35)
    ELSE IF score < Points(CRITICAL)
      THEN Milli(600) + MulPct(SegmentRatio(score, HIGH, CRITICAL), 25)
    ELSE Milli(850) + MulPct(SegmentRatio(score, CRITICAL, 100), 15)

\* update(): intensity = Math.min(intensity, 1)
Intensity(score) == Min(RawIntensity(score), Milli(1000))

\* update() with the playback rate interpolated down to 0 instead of to
\* PLAYBACK_RATE.min
EffectsFromIntensityRateToZero(intensity) ==
    Effects(
      MulMilli(intensity, GRAYSCALE_max),
      Milli(SATURATION_max) - MulMilli(intensity, SATURATION_max - SATURATION_min),
      Milli(BRIGHTNESS_max) - MulMilli(intensity, BRIGHTNESS_max - BRIGHTNESS_min),
      MulMilli(intensity, BLUR_max),
      Milli(PLAYBACK_RATE_max) - MulMilli(intensity, PLAYBACK_RATE_max),
      intensity)

\* update(): the target literal built from intensity
EffectsFromIntensity(intensity) ==
    Effects(
      MulMilli(intensity, GRAYSCALE_max),
      Milli(SATURATION_max) - MulMilli(intensity, SATURATION_max - SATURATION_min),
      Milli(BRIGHTNESS_max) - MulMilli(intensity, BRIGHTNESS_max - BRIGHTNESS_min),
      MulMilli(intensity, BLUR_max),
      Milli(PLAYBACK_RATE_max) - MulMilli(intensity, PLAYBACK_RATE_max - PLAYBACK_RATE_min),
      intensity)

\* update(): the value assigned to this.targetEffects
TargetFor(score) ==
    IF score < Points(LOW) THEN NeutralEffects
                           ELSE EffectsFromIntensity(Intensity(score))

----------------------------------------------------------------------------
(* AudioProcessor: one pipeline per video.  Cutoff in Hz, shelf gain in    *)
(* thousandths of a dB, gain and intensity in millionths.                   *)

\* a video without an entry in activeProcessors; sourced tells whether the
\* element was handed to createMediaElementSource before
NoProcessor(sourced) ==
    [attached |-> FALSE, sourced |-> sourced, cutoff |-> 0, shelfGain |-> 0,
     gain |-> 0, currentIntensity |-> 0]

\* the pipeline attach() builds: low-pass at 20000 Hz, shelf at 0 dB, gain 1
FreshProcessor ==
    [attached |-> TRUE, sourced |-> TRUE, cutoff |-> 20000, shelfGain |-> 0,
     gain |-> 1000000, currentIntensity |-> 0]

\* attach(videoElement): nothing for a video that has a pipeline; else the
\* pipeline is built unless a call in the try block raises.
\* createMediaElementSource raises for an element it was given before.
Attach(p, ok) ==
    IF p.attached THEN p
    ELSE IF ok /\ ~p.sourced THEN FreshProcessor
    ELSE p

\* a cutoff that falls to 200 Hz
LowPassTargetTo200(intensity) ==
    Max(20000 - RoundDiv(198 * intensity, 10000), 2000)

\* Math.max(20000 - intensity * 18000, 2000)
LowPassTarget(intensity) ==
    Max(20000 - RoundDiv(18 * intensity, 1000), 2000)

\* applyFade(videoElement, intensity): the values the three ramps end at
ApplyFade(p, intensity) ==
    IF ~p.attached THEN p
    ELSE [p EXCEPT !.cutoff = LowPassTarget(intensity),
                   !.shelfGain = -RoundDiv(12 * intensity, 1000),
                   !.gain = 1000000 - RoundDiv(15 * intensity, 100),
                   !.currentIntensity = intensity]

\* detach(videoElement); an error of context.close() is caught
Detach(p) == IF p.attached THEN NoProcessor(TRUE) ELSE p

\* the pipelines of videos registered while the engine applied intensity:
\* a video that was playing has one, a paused one has none yet
ProcessorsFor(vs, intensity) ==
    [v \in DOMAIN vs |-> IF vs[v].paused THEN NoProcessor(FALSE)
                                          ELSE ApplyFade(FreshProcessor, intensity)]

\* _applyEffects(), its audio part: applyFade on every registered video
AppliedToAll(ps, intensity) ==
    [v \in DOMAIN ps |-> ApplyFade(ps[v], intensity)]

\* the jitter threshold 0.01 of _applyEffects, in thousandths
RateJitter == 10

\* _applyEffects(), the playback rate of one video: only a video that is
\* playing is touched, and only when its rate is more than 0.01 away
RateApplied(v, rate, playbackRate) ==
    IF ~videos[v].paused /\ ~videos[v].ended
         /\ Abs(rate - playbackRate) > Milli(RateJitter)
      THEN playbackRate
      ELSE rate

\* _applyEffects(), its playback-rate part over the registered videos
RatesApplied(rates, playbackRate) ==
    [v \in DOMAIN rates |-> RateApplied(v, rates[v], playbackRate)]

\* _startAnimation(): isAnimating = true and the first frame is requested
StartAnimation ==
    /\ isAnimating' = TRUE
    /\ animationFrame' = TRUE

\* "if (!this.isAnimating) this._startAnimation()"
StartAnimationIfIdle ==
    IF ~isAnimating THEN StartAnimation
                    ELSE UNCHANGED <<isAnimating, animationFrame>>

\* FadeEngine.update(dopamineScore)
FadeUpdate(score) ==
    /\ targetEffects' = TargetFor(score)
    /\ StartAnimationIfIdle
    /\ UNCHANGED <<currentEffects, breatheMode, breatheTimers, audioVars>>

\* the lerp factor 0.06 (hundredths) and the snap threshold 0.001 (thousandths)
lerp == 6
SnapThreshold == 1

\* step() with the difference taken with the wrong sign of current
StepChannelWrongSign(cur, tgt) ==
    IF Abs(tgt - cur) > Milli(SnapThreshold)
      THEN cur + MulPct(tgt + cur, lerp)
      ELSE tgt

\* step() without the snap to the target
StepChannelNoSnap(cur, tgt) == cur + MulPct(tgt - cur, lerp)

\* step() with a snap threshold of 0.0001 instead of 0.001
StepChannelTightSnap(cur, tgt) ==
    IF Abs(tgt - cur) > Milli(SnapThreshold) \div 10
      THEN cur + MulPct(tgt - cur, lerp)
      ELSE tgt

\* step(): one channel
StepChannel(cur, tgt) ==
    IF Abs(tgt - cur) > Milli(SnapThreshold)
      THEN cur + MulPct(tgt - cur, lerp)
      ELSE tgt

\* step(): stillAnimating after the loop over the channels
StillAnimating(cur, tgt) ==
    \E k \in Channels : Abs(tgt[k] - cur[k]) > Milli(SnapThreshold)

\* step(): the requestAnimationFrame callback of _startAnimation()
AnimationStep ==
    /\ animationFrame
    /\ currentEffects' =
         [k \in Channels |-> StepChannel(currentEffects[k], targetEffects[k])]
    /\ IF StillAnimating(currentEffects, targetEffects)
         THEN UNCHANGED <<isAnimating, animationFrame>>
         ELSE /\ isAnimating' = FALSE
              /\ animationFrame' = FALSE
    /\ processors' = AppliedToAll(processors, currentEffects'.audioIntensity)
    /\ playbackRates' = RatesApplied(playbackRates, currentEffects'.playbackRate)
    /\ nTicks' = nTicks + 1
    /\ call' = "step"
    /\ UNCHANGED <<targetEffects, breatheMode, breatheTimers, playListeners,
                   nCalls>>
    /\ UNCHANGED detectorVars

\* FadeEngine.breathe(), up to the setTimeout call
Breathe ==
    /\ breatheMode' = TRUE
    /\ breatheTimers' = Append(breatheTimers, targetEffects)
    /\ targetEffects' = BreatheEffects
    /\ nCalls' = nCalls + 1
    /\ call' = "breathe"
    /\ UNCHANGED <<currentEffects, isAnimating, animationFrame, audioVars,
                   nTicks>>
    /\ UNCHANGED detectorVars

\* the setTimeout callback of breathe(), 5000 ms after the call; timers of
\* equal delay fire in the order they were set
BreatheTimeout ==
    /\ breatheTimers # << >>
    /\ targetEffects' = Head(breatheTimers)
    /\ breatheMode' = FALSE
    /\ breatheTimers' = Tail(breatheTimers)
    /\ call' = "restore"
    /\ UNCHANGED <<currentEffects, isAnimating, animationFrame, audioVars,
                   nCalls, nTicks>>
    /\ UNCHANGED detectorVars

\* FadeEngine.reset(); the playback rates of the videos are outside the
\* state of this model
FadeReset ==
    /\ targetEffects' = NeutralEffects
    /\ StartAnimationIfIdle
    /\ processors' = AppliedToAll(processors, 0)
    /\ playbackRates' = [v \in DOMAIN playbackRates |-> Milli(1000)]
    /\ UNCHANGED <<currentEffects, breatheMode, breatheTimers, playListeners>>

\* a handler that leaves the stored flag as it was
WrittenByToggleSkipped(flag, old) == old

\* what the content script's toggle handlers put into nf_enabled:
\* chrome.storage.local.set({ nf_enabled: enabled }) with the flipped flag
WrittenByToggle(flag, old) == flag

\* the body of case TOGGLE and of the indicator's click listener: the flag
\* is flipped, copied to the detector if there is one, the engine is reset
\* when there is one and the flag went off, and the flag is stored
ToggleHandled ==
    /\ enabled' = ~enabled
    /\ IF enabled /\ detectorExists THEN FadeReset ELSE UNCHANGED fadeVars
    /\ storedEnabled' = WrittenByToggle(enabled', storedEnabled)
    /\ UNCHANGED <<scoreVars, sensitivity, pageVars, storedSensitivity,
                   detectorExists, backgroundVars, mainToggle, sliderPosition, popupOpen,
                   popupTasks, nTicks>>

\* onMessage TOGGLE / the indicator's click listener, on a page whose
\* detector exists
Toggle ==
    /\ detectorExists
    /\ ToggleHandled
    /\ nCalls' = nCalls + 1
    /\ call' = IF enabled THEN "reset" ELSE "enable"
    /\ UNCHANGED inbox

\* detector.onScoreUpdate = (score, details) => fadeEngine.update(score), the
\* score being whatever the aggregator produced in this tick
OnScoreUpdate(score) ==
    /\ enabled
    /\ dopamineScore' = score
    /\ scoreUpdates' = <<score>>
    /\ FadeUpdate(score)
    /\ nCalls' = nCalls + 1
    /\ call' = "update"
    /\ UNCHANGED <<sensitivity, enabled, intakeVars, nTicks>>

\* a playing, ready, same-origin video showing the frame data
GoodSource(data) ==
    [present |-> TRUE, paused |-> FALSE, ended |-> FALSE, readyState |-> 4,
     videoWidth |-> 640, fault |-> "none", data |-> data]

\* analyzeFrame(null)
NoSource == [GoodSource(<< >>) EXCEPT !.present = FALSE]

\* what analyzeFrame returns: null, or the sample's result object; diff and
\* time are the locals diff and now of the call
NullResult ==
    [kind |-> "null", isSceneCut |-> FALSE, motionScore |-> 0, cutRate |-> 0,
     avgMotion |-> 0, frameCount |-> 0, diff |-> 0, time |-> 0]

\* frameResult before any call of analyzeFrame
NoResult == [NullResult EXCEPT !.kind = "none"]

\* distance before any call of computeHistogramDistance
NoDistance == [settled |-> "none", value |-> 0, hist1 |-> << >>,
               hist2 |-> << >>, graph |-> FALSE, raised |-> FALSE]

\* the height of the page when the detector is constructed
InitialHeight == 1000

\* new FrameAnalyzer()
InitAnalyzer ==
    /\ previousHistogram = << >>
    /\ lastFrameData = << >>
    /\ sceneCuts = << >>
    /\ motionScores = << >>
    /\ frameCount = 0
    /\ videoElement = NoSource
    /\ frameResult = NoResult

\* new NPUBridge(), init() not yet called
InitBridge ==
    /\ available = FALSE
    /\ backend = "cpu"
    /\ context = "null"
    /\ graph = FALSE
    /\ initialized = FALSE
    /\ initPc = "idle"
    /\ tried = << >>
    /\ initReturns = << >>
    /\ framesProcessed = 0
    /\ distance = NoDistance
    /\ computing = << >>

\* the service worker after onInstalled: no intervention counted, no
\* trackSession call running
InitBackground ==
    /\ totalInterventions = 0
    /\ trackSessions = << >>
    /\ nTracked = 0

\* the settings as the content script's init() found them, the detector it
\* created, and no popup open
InitControl ==
    /\ storedEnabled = enabled
    /\ storedSensitivity = sensitivity
    /\ detectorExists = TRUE
    /\ InitBackground
    /\ mainToggle = TRUE
    /\ sliderPosition = 50
    /\ popupOpen = FALSE
    /\ popupTasks = << >>
    /\ inbox = << >>

\* new NeuroFadeDetector() followed by start(), as the content script's
\* init() does, at time now
InitStarted ==
    /\ startTime = now
    /\ lastScrollY = 0
    /\ lastScrollTime = now
    /\ lastDOMHeight = InitialHeight
    /\ isActive = TRUE
    /\ intervals = 1
    /\ observers = 1
    /\ scrollListeners = {1}
    /\ scrollHandler = 1
    /\ nStarts = 1

\* new FadeEngine()
InitFade ==
    /\ currentEffects = NeutralEffects
    /\ targetEffects = NeutralEffects
    /\ isAnimating = FALSE
    /\ animationFrame = FALSE
    /\ breatheMode = FALSE
    /\ breatheTimers = << >>

\* the pipelines and listeners registerVideo has left on the videos
InitAudio ==
    /\ processors = ProcessorsFor(videos, currentEffects.audioIntensity)
    /\ playListeners = DOMAIN videos
    /\ playbackRates = [v \in DOMAIN videos |-> Milli(1000)]
    /\ detections = [v \in DOMAIN videos |-> 1]

\* the state after the content script's init() at time 0, with the stored
\* settings at their defaults: NeuroFadeDetector and FadeEngine constructed,
\* the detector started, the registered videos being vs
InitWith(vs) ==
    /\ InitFade
    /\ dopamineScore = 0
    /\ scoreUpdates = << >>
    /\ sensitivity = 500
    /\ enabled = TRUE
    /\ now = 0
    /\ InitControl
    /\ InitStarted
    /\ InitAnalyzer
    /\ InitBridge
    /\ scrollEvents = << >>
    /\ domHeightChanges = << >>
    /\ videos = vs
    /\ InitAudio
    /\ call = "init"
    /\ nCalls = 0
    /\ nTicks = 0
    /\ nEvents = 0

\* that state on a page without videos
Init == InitWith(<< >>)

\* The effect controller under every interleaving of score updates, breathe
\* triggers, breathe timers, toggles and convergence ticks
Next ==
    \/ \E score \in ScoreInputs : nCalls < MaxCalls /\ OnScoreUpdate(score)
    \/ nCalls < MaxCalls /\ Breathe
    \/ BreatheTimeout
    \/ nCalls < MaxCalls /\ Toggle
    \/ nTicks < MaxTicks /\ AnimationStep

Spec == Init /\ [][Next]_vars

----------------------------------------------------------------------------
(* FrameAnalyzer.getMetrics and NeuroFadeDetector._updateDopamineScore *)

RECURSIVE SumSeq(_)
SumSeq(q) == IF q = << >> THEN 0 ELSE Head(q) + SumSeq(Tail(q))

\* _average(arr)
Average(arr) == IF Len(arr) = 0 THEN 0 ELSE RoundDiv(SumSeq(arr), Len(arr))

\* getMetrics().cutRate, in millionths of a cut per 10 s
CutRate ==
    IF Len(sceneCuts) > 0
      THEN RoundDiv(Len(sceneCuts) * EffectUnit, SCENE_CUT_WINDOW \div 1000) * 10
      ELSE 0

\* a ratio in [0,1] (millionths) times 100, as a score value
Times100(ratio) == ratio * ((100 * ScoreUnit) \div EffectUnit)

\* n / d for a count n without the cap at 1
CountNormUncapped(n, d) == RoundDiv(n * EffectUnit, d)

\* Math.min(n / d, 1) for a count n, in millionths
CountNorm(n, d) == Min(RoundDiv(n * EffectUnit, d), EffectUnit)

\* 1. sceneCutScore
SceneCutScore ==
    LET cutRateNorm == Min(RoundDiv(CutRate, HIGH_CUT_RATE), EffectUnit)
        motionNorm == Min(RoundDiv(Average(motionScores) * 1000, MOTION_THRESHOLD),
                          EffectUnit)
    IN  Times100(MulPct(cutRateNorm, 70) + MulPct(motionNorm, 30))

\* 2. scrollScore
ScrollScore ==
    LET fastScrolls == Cardinality({i \in DOMAIN scrollEvents :
                                      scrollEvents[i].velocity > VELOCITY_THRESHOLD})
    IN  Times100(CountNorm(fastScrolls, RAPID_SCROLL_COUNT))

\* Math.log10 on the integer powers of ten
RECURSIVE Log10(_)
Log10(x) == IF x < 10 THEN 0 ELSE 1 + Log10(x \div 10)

\* Math.log10(1 + k / 120) for k = 0..60, in millionths: the first half
\* minute of monitoring in steps of 500 ms
Log10Grid ==
    <<0, 3604, 7179, 10724, 14240, 17729, 21189, 24622, 28029, 31408, 34762,
      38090, 41393, 44670, 47924, 51153, 54358, 57539, 60698, 63834, 66947,
      70038, 73107, 76155, 79181, 82187, 85172, 88136, 91080, 94005, 96910,
      99796, 102662, 105510, 108339, 111150, 113943, 116718, 119476, 122216,
      124939, 127645, 130334, 133006, 135663, 138303, 140927, 143535, 146128,
      148705, 151268, 153815, 156347, 158865, 161368, 163857, 166331, 168792,
      171239, 173672, 176091>>

\* 3. timeScore; the clock values of the model are either on that grid or
\* keep 1 + elapsed / 60 an integer power of ten, where Math.log10 is an
\* integer
TimeScore ==
    LET ms == now - startTime
        elapsed == ms \div 1000
    IN  IF ms % 500 = 0 /\ ms \div 500 < Len(Log10Grid)
          THEN Min(RoundDiv(Log10Grid[ms \div 500 + 1] * 50, 100), Points(100))
          ELSE Min(Log10(1 + elapsed \div 60) * Points(50), Points(100))

\* 4. contentChangeScore
ContentChangeScore ==
    Times100(CountNorm(Len(domHeightChanges), INFINITE_SCROLL_THRESHOLD))

\* 5. videoScore
VideoScore ==
    LET activeVideos == Cardinality({v \in DOMAIN videos :
                                       ~videos[v].paused /\ ~videos[v].ended})
    IN  Times100(CountNorm(activeVideos, 3))

\* the weighted composite, before the sensitivity multiplier
WeightedSum ==
    MulPct(SceneCutScore, W_SCENE_CUTS)
      + MulPct(ScrollScore, W_SCROLL_VELOCITY)
      + MulPct(TimeScore, W_TIME_ON_PAGE)
      + MulPct(ContentChangeScore, W_CONTENT_CHANGES)
      + MulPct(VideoScore, W_VIDEO_COUNT)

\* rawScore *= (0.5 + this.sensitivity * 1.5); the multiplier in thousandths
RawScore == MulMilli(WeightedSum, 500 + MulMilli(sensitivity, 1500))

\* alpha of the EMA, in hundredths
alpha == 15

\* the EMA without the clamp of rawScore to 100
SmoothedUnclamped(rawScore, previous) ==
    MulPct(rawScore, alpha) + MulPct(previous, 100 - alpha)

\* the EMA with alpha applied to the previous score instead of the raw one
SmoothedSwapped(rawScore, previous) ==
    MulPct(Min(rawScore, Points(100)), 100 - alpha) + MulPct(previous, alpha)

\* a smoothing step that goes 15 % beyond the clamped raw score
SmoothedBeyond(rawScore, previous) ==
    previous + MulPct(Min(rawScore, Points(100)) - previous, 100 + alpha)

\* alpha * Math.min(rawScore, 100) + (1 - alpha) * this.dopamineScore
Smoothed(rawScore, previous) ==
    MulPct(Min(rawScore, Points(100)), alpha) + MulPct(previous, 100 - alpha)

\* a notification that runs before the smoothed score is stored
NotifiedBeforeStore(score, previous) == <<previous>>

\* if (this.onScoreUpdate) this.onScoreUpdate(this.dopamineScore, {...}),
\* once, after this.dopamineScore has been assigned: the scores the
\* content script's callback is invoked with
Notified(score, previous) == <<score>>

\* a score interval whose callback does not test this.enabled
UpdateDopamineScoreUngated ==
    /\ intervals > 0
    /\ dopamineScore' = Smoothed(RawScore, dopamineScore)
    /\ scoreUpdates' = Notified(dopamineScore', dopamineScore)
    /\ FadeUpdate(Head(scoreUpdates'))
    /\ nCalls' = nCalls + 1
    /\ call' = "score"
    /\ UNCHANGED <<sensitivity, enabled, intakeVars, nTicks>>

\* the score interval's callback: if (this.enabled) this._updateDopamineScore(),
\* which ends in onScoreUpdate -> fadeEngine.update(score)
UpdateDopamineScore ==
    /\ intervals > 0
    /\ enabled
    /\ dopamineScore' = Smoothed(RawScore, dopamineScore)
    /\ scoreUpdates' = Notified(dopamineScore', dopamineScore)
    /\ FadeUpdate(Head(scoreUpdates'))
    /\ nCalls' = nCalls + 1
    /\ call' = "score"
    /\ UNCHANGED <<sensitivity, enabled, intakeVars, nTicks>>

\* onMessage SET_SENSITIVITY with the value the popup's slider sends
SetSensitivity(value) ==
    /\ sensitivity' = value
    /\ storedSensitivity' = value
    /\ nCalls' = nCalls + 1
    /\ call' = "sensitivity"
    /\ UNCHANGED fadeVars
    /\ UNCHANGED <<scoreVars, enabled, pageVars, storedEnabled,
                   detectorExists, backgroundVars, popupVars, nTicks>>

----------------------------------------------------------------------------
(* FrameAnalyzer: frames, histograms, motion and analyzeFrame              *)
(*                                                                         *)
(* A frame is the pixel data read back from the 160 x 90 canvas.  The      *)
(* frames of the model are grey pictures of equal horizontal bands, given  *)
(* as the sequence of the bands' levels 0..255 (red = green = blue), so    *)
(* that both the histogram and the every-16th-pixel motion sample weigh    *)
(* the bands equally.  Histogram entries are in thousandths, distances and *)
(* motion in millionths.                                                   *)

\* SCENE_CUT.HISTOGRAM_BINS and SCENE_CUT.DIFF_THRESHOLD (thousandths)
HISTOGRAM_BINS == 16
DIFF_THRESHOLD == 350

\* the sum of f[lo..hi], by halving
RECURSIVE SumOver(_, _, _)
SumOver(f, lo, hi) ==
    IF lo > hi THEN 0
    ELSE IF lo = hi THEN f[lo]
    ELSE LET mid == (lo + hi) \div 2
         IN  SumOver(f, lo, mid) + SumOver(f, mid + 1, hi)

\* _computeHistogram(data): bins of width 256 / BINS per channel, R then G
\* then B, each normalised by the pixel count
ComputeHistogram(data) ==
    LET binSize == 256 \div HISTOGRAM_BINS
        share(b) == (Cardinality({p \in DOMAIN data : data[p] \div binSize = b})
                       * 1000) \div Len(data)
    IN  [i \in 1..(HISTOGRAM_BINS * 3) |-> share((i - 1) % HISTOGRAM_BINS)]

\* a distance whose terms are divided by the first histogram's entry alone
HistogramDiffOneSided(h1, h2) ==
    LET term(i) == IF h1[i] > 0
                     THEN RoundDiv((h1[i] - h2[i]) * (h1[i] - h2[i]) * 1000,
                                   h1[i])
                     ELSE 0
    IN  RoundDiv(SumOver([i \in DOMAIN h1 |-> term(i)], 1, Len(h1)), Len(h1))

\* _histogramDiff(h1, h2)
HistogramDiff(h1, h2) ==
    LET term(i) == IF h1[i] + h2[i] > 0
                     THEN RoundDiv((h1[i] - h2[i]) * (h1[i] - h2[i]) * 1000,
                                   h1[i] + h2[i])
                     ELSE 0
    IN  RoundDiv(SumOver([i \in DOMAIN h1 |-> term(i)], 1, Len(h1)), Len(h1))

\* a motion score that takes a missing last frame for a black one
ComputeMotionAgainstBlack(currentData, last) ==
    RoundDiv(SumOver([p \in DOMAIN currentData |->
                        Abs(currentData[p]
                              - (IF last = << >> THEN 0 ELSE last[p]))],
                     1, Len(currentData)) * EffectUnit,
             255 * Len(currentData))

\* _computeMotion(currentData) against a retained frame; every sampled pixel
\* contributes (dr + dg + db) / (3 * 255)
ComputeMotion(currentData, last) ==
    IF last = << >> THEN 0
    ELSE RoundDiv(SumOver([p \in DOMAIN currentData |->
                             Abs(currentData[p] - last[p])],
                          1, Len(currentData)) * EffectUnit,
                  255 * Len(currentData))

\* analyzeFrame's guard with the paused test left out
SkippedUnlessPaused(v) ==
    \/ ~v.present
    \/ v.ended
    \/ v.readyState < 2
    \/ v.videoWidth = 0

\* analyzeFrame's guard: the source is absent, paused, ended, not ready or
\* without width
Skipped(v) ==
    \/ ~v.present
    \/ v.paused
    \/ v.ended
    \/ v.readyState < 2
    \/ v.videoWidth = 0

\* drawImage or getImageData raises for this source
Raises(v) == v.fault # "none"

\* the analyzer's fields of a fresh instance and after reset()
FreshAnalyzer ==
    [previousHistogram |-> << >>, lastFrameData |-> << >>, sceneCuts |-> << >>,
     motionScores |-> << >>, frameCount |-> 0]

\* the analyzer's fields in the current state
ThisAnalyzer ==
    [previousHistogram |-> previousHistogram, lastFrameData |-> lastFrameData,
     sceneCuts |-> sceneCuts, motionScores |-> motionScores,
     frameCount |-> frameCount]

\* (sceneCuts.length / windowSeconds) * 10, in millionths
CutRateOf(cuts) ==
    RoundDiv(Len(cuts) * EffectUnit, SCENE_CUT_WINDOW \div 1000) * 10

\* a comparison that takes the bridge's last answer once one has arrived
SceneCutDistanceFromBridge(h1, h2) ==
    IF available /\ distance.settled = "resolved"
      THEN distance.value
      ELSE HistogramDiff(h1, h2)

\* the diff analyzeFrame decides on: _histogramDiff in both branches; the
\* promise of the bridge's computeHistogramDistance is left to a then()
\* callback with an empty body
SceneCutDistance(h1, h2) == HistogramDiff(h1, h2)

\* the body of analyzeFrame's try block for pixel data read at time t: the
\* analyzer's fields afterwards
Analyzed(a, data, t) ==
    LET histogram == ComputeHistogram(data)
        diff == IF a.previousHistogram # << >>
                  THEN SceneCutDistance(a.previousHistogram, histogram)
                  ELSE 0
        isSceneCut == a.previousHistogram # << >> /\ diff > Milli(DIFF_THRESHOLD)
        pushed == IF isSceneCut THEN Append(a.sceneCuts, t) ELSE a.sceneCuts
        motions == Append(a.motionScores, ComputeMotion(data, a.lastFrameData))
    IN  [previousHistogram |-> histogram,
         lastFrameData |-> data,
         sceneCuts |-> SelectSeq(pushed, LAMBDA c : t - c < SCENE_CUT_WINDOW),
         motionScores |-> IF Len(motions) > 20 THEN Tail(motions) ELSE motions,
         frameCount |-> a.frameCount + 1]

\* the object analyzeFrame returns for that sample
ResultOf(a, data, t) ==
    LET after == Analyzed(a, data, t)
        histogram == ComputeHistogram(data)
        diff == IF a.previousHistogram # << >>
                  THEN SceneCutDistance(a.previousHistogram, histogram)
                  ELSE 0
    IN  [kind |-> "sample",
         isSceneCut |-> a.previousHistogram # << >> /\ diff > Milli(DIFF_THRESHOLD),
         motionScore |-> ComputeMotion(data, a.lastFrameData),
         cutRate |-> CutRateOf(after.sceneCuts),
         avgMotion |-> Average(after.motionScores),
         frameCount |-> after.frameCount,
         diff |-> diff,
         time |-> t]

\* the chi-squared sum without the division by the number of bins
JsHistogramDistanceUndivided(h1, h2) ==
    LET term(i) == IF h1[i] + h2[i] > 0
                     THEN RoundDiv((h1[i] - h2[i]) * (h1[i] - h2[i]) * 1000,
                                   h1[i] + h2[i])
                     ELSE 0
    IN  SumOver([i \in DOMAIN h1 |-> term(i)], 1, Len(h1))

\* NPUBridge._jsHistogramDistance(h1, h2)
JsHistogramDistance(h1, h2) ==
    LET term(i) == IF h1[i] + h2[i] > 0
                     THEN RoundDiv((h1[i] - h2[i]) * (h1[i] - h2[i]) * 1000,
                                   h1[i] + h2[i])
                     ELSE 0
    IN  RoundDiv(SumOver([i \in DOMAIN h1 |-> term(i)], 1, Len(h1)), Len(h1))

\* what the WebNN graph of _buildSceneCutGraph can answer: the mean of
\* (h1 - h2)^2 / (h1 + h2 + 1e-10) as the device evaluates it in float32,
\* within one unit of the representation of the exact mean
GraphAnswers(h1, h2) ==
    {d \in {JsHistogramDistance(h1, h2) + e : e \in {-1, 0, 1}} : d >= 0}

\* the outcomes of graph.compute: it raises, or it resolves to an answer
ComputeOutcomes(h1, h2) == {-1} \cup GraphAnswers(h1, h2)

\* NPUBridge.computeHistogramDistance(hist1, hist2) with the outcome of
\* graph.compute, -1 for a raised error
ComputeHistogramDistance(hist1, hist2, outcome) ==
    /\ distance' =
         [settled |-> "resolved",
          value |-> IF graph /\ outcome # -1
                      THEN outcome
                      ELSE JsHistogramDistance(hist1, hist2),
          hist1 |-> hist1,
          hist2 |-> hist2,
          graph |-> graph,
          raised |-> graph /\ outcome = -1]
    /\ framesProcessed' = framesProcessed + 1
    /\ UNCHANGED <<available, backend, context, graph, initialized, initPc,
                   tried, initReturns, computing>>

\* computeHistogramDistance(hist1, hist2) of a bridge with a graph, up to
\* its await: the call is suspended until graph.compute settles
ComputeSuspends(hist1, hist2) ==
    /\ graph
    /\ computing' = Append(computing, [hist1 |-> hist1, hist2 |-> hist2])
    /\ UNCHANGED <<available, backend, context, graph, initialized, initPc,
                   tried, initReturns, framesProcessed, distance>>

\* graph.compute of the i-th suspended call settles with an outcome, however
\* late and in whatever order: the rest of computeHistogramDistance runs
ComputeSettles(i, outcome) ==
    /\ i \in DOMAIN computing
    /\ distance' =
         [settled |-> "resolved",
          value |-> IF outcome # -1
                      THEN outcome
                      ELSE JsHistogramDistance(computing[i].hist1,
                                               computing[i].hist2),
          hist1 |-> computing[i].hist1,
          hist2 |-> computing[i].hist2,
          graph |-> TRUE,
          raised |-> outcome = -1]
    /\ framesProcessed' = framesProcessed + 1
    /\ computing' = [k \in 1..(Len(computing) - 1) |->
                       IF k < i THEN computing[k] ELSE computing[k + 1]]
    /\ UNCHANGED <<available, backend, context, graph, initialized, initPc,
                   tried, initReturns>>

\* FrameAnalyzer.analyzeFrame(videoElement) at time now
AnalyzeFrame(v) ==
    /\ videoElement' = v
    /\ IF Skipped(v) \/ Raises(v)
         THEN /\ frameResult' = NullResult
              /\ UNCHANGED <<previousHistogram, lastFrameData, sceneCuts,
                             motionScores, frameCount>>
              /\ UNCHANGED bridgeVars
         ELSE LET after == Analyzed(ThisAnalyzer, v.data, now)
              IN  /\ frameResult' = ResultOf(ThisAnalyzer, v.data, now)
                  /\ previousHistogram' = after.previousHistogram
                  /\ lastFrameData' = after.lastFrameData
                  /\ sceneCuts' = after.sceneCuts
                  /\ motionScores' = after.motionScores
                  /\ frameCount' = after.frameCount
                  /\ IF available /\ previousHistogram # << >>
                       THEN IF graph
                              THEN ComputeSuspends(previousHistogram,
                                                   after.previousHistogram)
                              ELSE ComputeHistogramDistance(previousHistogram,
                                                            after.previousHistogram,
                                                            -1)
                       ELSE UNCHANGED bridgeVars

\* FrameAnalyzer.reset()
AnalyzerReset ==
    /\ previousHistogram' = << >>
    /\ lastFrameData' = << >>
    /\ sceneCuts' = << >>
    /\ motionScores' = << >>
    /\ frameCount' = 0
    /\ UNCHANGED <<videoElement, frameResult>>

\* the analyzer's fields after analysing the frames fs, the last one at time t
\* and one every FRAME_SAMPLE_INTERVAL before it
RECURSIVE AfterFrames(_, _)
AfterFrames(fs, t) ==
    IF fs = << >> THEN FreshAnalyzer
    ELSE Analyzed(AfterFrames(SubSeq(fs, 1, Len(fs) - 1),
                              t - FRAME_SAMPLE_INTERVAL),
                  fs[Len(fs)], t)

\* black, white, and half black half white
FrameInputs == {<<0, 0>>, <<255, 255>>, <<0, 255>>}

\* the sources analyzeFrame must skip, one defect each: paused, ended, only
\* metadata loaded, no width yet, drawImage raising, getImageData raising
\* (cross-origin), and no element at all
DefectiveSources ==
    {[GoodSource(<<255, 255>>) EXCEPT !.paused = TRUE],
     [GoodSource(<<255, 255>>) EXCEPT !.ended = TRUE],
     [GoodSource(<<255, 255>>) EXCEPT !.readyState = 1],
     [GoodSource(<<255, 255>>) EXCEPT !.videoWidth = 0],
     [GoodSource(<<255, 255>>) EXCEPT !.fault = "draw"],
     [GoodSource(<<255, 255>>) EXCEPT !.fault = "read"],
     NoSource}

SourceInputs == {GoodSource(data) : data \in FrameInputs} \cup DefectiveSources

----------------------------------------------------------------------------
(* NeuroFadeDetector: start(), stop() and the callbacks they install *)

\* one run of the scroll handler at time t with window.scrollY = y, on the
\* fields s = [scrollEvents, lastScrollY, lastScrollTime]; velocity in px/s,
\* rounded to the nearest integer
ScrollHandled(s, y, t) ==
    LET dy == Abs(y - s.lastScrollY)
        dtMs == t - s.lastScrollTime
        velocity == IF dtMs = 0 THEN dy * 1000 ELSE RoundDiv(dy * 1000, dtMs)
        pushed == Append(s.scrollEvents,
                         [time |-> t, velocity |-> velocity, dy |-> dy])
    IN  [scrollEvents |-> SelectSeq(pushed,
                            LAMBDA e : t - e.time < RAPID_SCROLL_WINDOW),
         lastScrollY |-> y,
         lastScrollTime |-> t]

\* k attached handlers run one after the other for the same scroll event
RECURSIVE ScrollHandledBy(_, _, _, _)
ScrollHandledBy(k, s, y, t) ==
    IF k = 0 THEN s ELSE ScrollHandledBy(k - 1, ScrollHandled(s, y, t), y, t)

\* a scroll event on window reaching every attached handler
ScrollEvent(y) ==
    /\ scrollListeners # {}
    /\ LET s == ScrollHandledBy(Cardinality(scrollListeners),
                                [scrollEvents |-> scrollEvents,
                                 lastScrollY |-> lastScrollY,
                                 lastScrollTime |-> lastScrollTime], y, now)
       IN  /\ scrollEvents' = s.scrollEvents
           /\ lastScrollY' = s.lastScrollY
           /\ lastScrollTime' = s.lastScrollTime
    /\ nEvents' = nEvents + 1
    /\ call' = "scroll"
    /\ UNCHANGED <<domHeightChanges, lastDOMHeight>>
    /\ UNCHANGED <<fadeVars, scoreVars, sensitivity, enabled, controlVars, now,
                   startTime, videos, analyzerVars, lifeVars, bridgeVars,
                   nCalls, nTicks>>

\* one callback of a DOM-height interval, document.body.scrollHeight being
\* currentHeight
DomPoll(currentHeight) ==
    /\ intervals > 0
    /\ IF currentHeight # lastDOMHeight
         THEN /\ domHeightChanges' =
                   SelectSeq(Append(domHeightChanges, now),
                             LAMBDA c : now - c < RAPID_SCROLL_WINDOW)
              /\ lastDOMHeight' = currentHeight
         ELSE UNCHANGED <<domHeightChanges, lastDOMHeight>>
    /\ nEvents' = nEvents + 1
    /\ call' = "poll"
    /\ UNCHANGED <<scrollEvents, lastScrollY, lastScrollTime>>
    /\ UNCHANGED <<fadeVars, scoreVars, sensitivity, enabled, controlVars, now,
                   startTime, videos, analyzerVars, lifeVars, bridgeVars,
                   nCalls, nTicks>>

\* _getActiveVideo() finds a video: one that is neither paused nor ended
\* (every registered video of the model is laid out and in the viewport)
HasActiveVideo ==
    \E i \in DOMAIN videos : ~videos[i].paused /\ ~videos[i].ended

\* one callback of a frame interval; v is the active video as it is when
\* analyzeFrame reads it
FrameTick(v) ==
    /\ intervals > 0
    /\ v.present /\ ~v.paused /\ ~v.ended
    /\ IF enabled /\ HasActiveVideo
         THEN AnalyzeFrame(v)
         ELSE UNCHANGED <<analyzerVars, bridgeVars>>
    /\ nEvents' = nEvents + 1
    /\ call' = "frame"
    /\ UNCHANGED <<fadeVars, scoreVars, sensitivity, enabled, controlVars, now,
                   startTime, videos, scrollVars, lifeVars, nCalls, nTicks>>

\* NeuroFadeDetector.start() on a supported platform
Start ==
    /\ isActive' = TRUE
    /\ startTime' = now
    /\ observers' = observers + 1
    /\ nStarts' = nStarts + 1
    /\ scrollHandler' = nStarts'
    /\ scrollListeners' = scrollListeners \cup {nStarts'}
    /\ intervals' = intervals + 1
    /\ nEvents' = nEvents + 1
    /\ call' = "start"
    /\ UNCHANGED detections
    /\ UNCHANGED <<fadeVars, scoreVars, sensitivity, enabled, controlVars, now, videos,
                   analyzerVars, scrollVars, bridgeVars, nCalls, nTicks>>

\* NeuroFadeDetector.stop()
Stop ==
    /\ isActive' = FALSE
    /\ intervals' = 0
    /\ observers' = 0
    /\ scrollListeners' = scrollListeners \ {scrollHandler}
    /\ nEvents' = nEvents + 1
    /\ call' = "stop"
    /\ UNCHANGED <<scrollHandler, nStarts, detections>>
    /\ UNCHANGED <<fadeVars, scoreVars, sensitivity, enabled, controlVars, now,
                   startTime, videos, analyzerVars, scrollVars, bridgeVars,
                   nCalls, nTicks>>

\* d milliseconds pass without any callback running
Advance(d) ==
    /\ now' = now + d
    /\ call' = "clock"
    /\ UNCHANGED <<fadeVars, scoreVars, sensitivity, enabled, controlVars, startTime,
                   videos, analyzerVars, scrollVars, lifeVars, bridgeVars,
                   nCalls, nTicks, nEvents>>

----------------------------------------------------------------------------
(* The score aggregator: a monitored page with signals already taken in,   *)
(* then score ticks, sensitivity changes and toggles                       *)

MaxScoreCalls == 3

\* slider positions 0 %, 50 %, 100 %
SensitivityInputs == {0, 500, 1000}

\* elapsed 0 s, 540 s, 59940 s
ClockInputs == {0, 540000, 59940000}

\* n timestamps, the last at time t, spaced by step
RecentTimes(t, n, step) == [i \in 1..n |-> t - (n - i) * step]

\* n scroll events ending at time t, every third one slow
ScrollBurst(t, n) ==
    [i \in 1..n |-> [time |-> t - (n - i) * 100,
                     velocity |-> IF i % 3 = 0 THEN 400 ELSE 1200,
                     dy |-> IF i % 3 = 0 THEN 40 ELSE 120]]

\* n videos, the first p of them playing
VideoSet(n, p) == [v \in 1..n |-> [paused |-> v > p, ended |-> FALSE]]

\* the score after n score ticks at rawScore 100, starting from 0
RECURSIVE ScoreAfter(_)
ScoreAfter(n) ==
    IF n = 0 THEN 0 ELSE Smoothed(Points(100), ScoreAfter(n - 1))

\* how many earlier score ticks the drawn scores stand for
EarlierTicks == {0, 4, 20}

\* the frames analysed so far: none; black then white then black; black then
\* a grey of level 51 (motion 0.2); 21 frames alternating black and white
\* (motion 1 from the second frame on)
FramesSeen ==
    {<< >>,
     <<<<0, 0>>, <<255, 255>>, <<0, 0>>>>,
     <<<<0, 0>>, <<51, 51>>>>,
     [i \in 1..21 |-> IF i % 2 = 1 THEN <<0, 0>> ELSE <<255, 255>>]}

InitScore ==
    /\ dopamineScore \in {ScoreAfter(n) : n \in EarlierTicks}
    /\ scoreUpdates = IF dopamineScore = 0 THEN << >> ELSE <<dopamineScore>>
    /\ targetEffects = TargetFor(dopamineScore)
    /\ currentEffects = targetEffects
    /\ isAnimating = FALSE
    /\ animationFrame = FALSE
    /\ breatheMode = FALSE
    /\ breatheTimers = << >>
    /\ sensitivity \in SensitivityInputs
    /\ enabled = TRUE
    /\ InitControl
    /\ startTime = 0
    /\ now \in ClockInputs
    /\ \E fs \in FramesSeen :
         LET a == AfterFrames(fs, now)
         IN  /\ previousHistogram = a.previousHistogram
             /\ lastFrameData = a.lastFrameData
             /\ sceneCuts = a.sceneCuts
             /\ motionScores = a.motionScores
             /\ frameCount = a.frameCount
             /\ videoElement = IF fs = << >> THEN NoSource
                                            ELSE GoodSource(a.lastFrameData)
             /\ frameResult = IF fs = << >>
                                THEN NoResult
                                ELSE ResultOf(AfterFrames(SubSeq(fs, 1, Len(fs) - 1),
                                                          now - FRAME_SAMPLE_INTERVAL),
                                              fs[Len(fs)], now)
    /\ scrollEvents \in {ScrollBurst(now, n) : n \in {0, 2, 10}}
    /\ domHeightChanges \in {RecentTimes(now, n, 500) : n \in {0, 20}}
    /\ lastScrollY = 120 * Len(scrollEvents)
    /\ lastScrollTime = IF scrollEvents = << >> THEN startTime ELSE now
    /\ lastDOMHeight = InitialHeight + 1000 * Len(domHeightChanges)
    /\ isActive = TRUE
    /\ intervals = 1
    /\ observers = 1
    /\ scrollListeners = {1}
    /\ scrollHandler = 1
    /\ nStarts = 1
    /\ InitBridge
    /\ videos \in {VideoSet(0, 0), VideoSet(1, 1), VideoSet(4, 3)}
    /\ InitAudio
    /\ now = startTime =>
         /\ frameCount = 0
         /\ scrollEvents = << >> /\ domHeightChanges = << >>
    /\ frameCount > 0 => videos # << >>
    /\ call = "init"
    /\ nCalls = 0
    /\ nTicks = 0
    /\ nEvents = 0

NextScore ==
    \/ nCalls < MaxScoreCalls /\ UpdateDopamineScore
    \/ \E value \in SensitivityInputs :
         nCalls < MaxScoreCalls /\ SetSensitivity(value)
    \/ nCalls < MaxScoreCalls /\ Toggle

SpecScore == InitScore /\ [][NextScore]_vars

----------------------------------------------------------------------------
(* The detector on a page with one playing video: the clock, scroll        *)
(* events, DOM-height polls, frame ticks, score ticks, start() and stop()  *)

MaxEvents == 3

MaxDetectorCalls == 2

\* the clock stops here
MaxTime == 10000

\* time passes five seconds at a time; callbacks may be late by any amount
\* (setInterval gives no upper bound, background tabs are throttled)
TimeSteps == {5000}

\* window.scrollY: 1000 px in 5 s is a slow scroll, 5000 px or more a fast one
ScrollPositions == {0, 1000, 6000}

\* document.body.scrollHeight
PageHeights == {InitialHeight, 2 * InitialHeight}

InitPage == InitWith(VideoSet(1, 1))

NextDetector ==
    \/ \E d \in TimeSteps : now + d <= MaxTime /\ Advance(d)
    \/ \E y \in ScrollPositions : nEvents < MaxEvents /\ ScrollEvent(y)
    \/ \E h \in PageHeights : nEvents < MaxEvents /\ DomPoll(h)
    \/ \E v \in SourceInputs : nEvents < MaxEvents /\ FrameTick(v)
    \/ nCalls < MaxDetectorCalls /\ UpdateDopamineScore
    \/ nEvents < MaxEvents /\ Start
    \/ nEvents < MaxEvents /\ Stop

SpecDetector == InitPage /\ [][NextDetector]_vars

----------------------------------------------------------------------------
(* The frame analyzer on its own: analyzeFrame called with every kind of   *)
(* source, reset(), and the clock                                          *)

MaxFrames == 4

\* a caller's analyzeFrame(v)
AnalyzeCall(v) ==
    /\ AnalyzeFrame(v)
    /\ nEvents' = nEvents + 1
    /\ call' = "analyze"
    /\ UNCHANGED <<fadeVars, scoreVars, sensitivity, enabled, controlVars, now,
                   startTime, videos, scrollVars, lifeVars, nCalls, nTicks>>

\* a caller's reset()
AnalyzerResetCall ==
    /\ AnalyzerReset
    /\ nEvents' = nEvents + 1
    /\ call' = "analyzerReset"
    /\ UNCHANGED <<fadeVars, scoreVars, sensitivity, enabled, controlVars, now,
                   startTime, videos, scrollVars, lifeVars, bridgeVars,
                   nCalls, nTicks>>

NextAnalyzer ==
    \/ \E v \in SourceInputs : nEvents < MaxFrames /\ AnalyzeCall(v)
    \/ nEvents < MaxFrames /\ AnalyzerResetCall
    \/ \E d \in TimeSteps : now + d <= MaxTime /\ Advance(d)

SpecAnalyzer == InitPage /\ [][NextAnalyzer]_vars

----------------------------------------------------------------------------
(* NPUBridge: backend selection and the distance call *)

\* the number of init() calls, and of computeHistogramDistance calls
MaxInits == 2
MaxDistanceCalls == 2

\* the device types init() asks navigator.ml.createContext for
Devices == {"npu", "gpu", "cpu"}

\* selection without the GPU attempt
AfterFailureSkipsGpu(device) ==
    IF device = "npu" THEN "cpu" ELSE "fallback"

\* where init() continues when createContext for a device has raised: the
\* next try block, or the pure JS fallback after the last one
AfterFailure(device) ==
    CASE device = "npu" -> "gpu"
      [] device = "gpu" -> "cpu"
      [] OTHER -> "fallback"

\* init() up to its first selection step: the early return of a bridge that
\* is initialized, else _detectHardware and _initONNXRuntime (both absorb
\* their errors and leave the modelled fields alone) and the test
\* 'ml' in navigator.  Calls are not overlapped: each caller awaits init().
BridgeInit(mlPresent) ==
    /\ initPc = "idle"
    /\ IF initialized
         THEN /\ initReturns' = Append(initReturns, available)
              /\ UNCHANGED initPc
         ELSE /\ initPc' = IF mlPresent THEN "npu" ELSE "fallback"
              /\ UNCHANGED initReturns
    /\ call' = "bridgeInit"
    /\ UNCHANGED <<available, backend, context, graph, initialized, tried,
                   framesProcessed, distance, computing>>
    /\ UNCHANGED besideBridge

\* one try block of init(): createContext for the device at hand resolves
\* or raises
CreateContext(ok) ==
    /\ initPc \in Devices
    /\ tried' = Append(tried, initPc)
    /\ IF ok
         THEN /\ context' = initPc
              /\ backend' = initPc
              /\ available' = TRUE
              /\ initPc' = "build"
         ELSE /\ initPc' = AfterFailure(initPc)
              /\ UNCHANGED <<context, backend, available>>
    /\ call' = "createContext"
    /\ UNCHANGED <<graph, initialized, initReturns, framesProcessed, distance,
                   computing>>
    /\ UNCHANGED besideBridge

\* the rest of a try block whose context was created: _buildSceneCutGraph
\* (a failed build leaves graph null), initialized = true, return true
BuildSceneCutGraph(built) ==
    /\ initPc = "build"
    /\ graph' = built
    /\ initialized' = TRUE
    /\ initReturns' = Append(initReturns, TRUE)
    /\ initPc' = "idle"
    /\ call' = "graph"
    /\ UNCHANGED <<available, backend, context, tried, framesProcessed, distance,
                   computing>>
    /\ UNCHANGED besideBridge

\* the end of init() when WebNN is absent or no context could be created
PureJsFallback ==
    /\ initPc = "fallback"
    /\ backend' = "cpu"
    /\ available' = FALSE
    /\ initialized' = TRUE
    /\ initReturns' = Append(initReturns, FALSE)
    /\ initPc' = "idle"
    /\ call' = "fallback"
    /\ UNCHANGED <<context, graph, tried, framesProcessed, distance, computing>>
    /\ UNCHANGED besideBridge

\* the histograms of the frame pictures
HistogramInputs == {ComputeHistogram(data) : data \in FrameInputs}

\* a caller's computeHistogramDistance(hist1, hist2)
DistanceCall(hist1, hist2, outcome) ==
    /\ ComputeHistogramDistance(hist1, hist2, outcome)
    /\ call' = "distance"
    /\ UNCHANGED besideBridge

NextBridge ==
    \/ \E mlPresent \in BOOLEAN :
         Len(initReturns) < MaxInits /\ BridgeInit(mlPresent)
    \/ \E ok \in BOOLEAN : CreateContext(ok)
    \/ \E built \in BOOLEAN : BuildSceneCutGraph(built)
    \/ PureJsFallback
    \/ \E hist1 \in HistogramInputs, hist2 \in HistogramInputs :
         \E outcome \in ComputeOutcomes(hist1, hist2) :
           framesProcessed < MaxDistanceCalls /\ DistanceCall(hist1, hist2, outcome)

SpecBridge == Init /\ [][NextBridge]_vars

----------------------------------------------------------------------------
(* The frame analyzer beside an NPUBridge that initializes and answers *)

\* the number of analyzeFrame calls beside the bridge
MaxAcceleratedFrames == 3

\* a suspended computeHistogramDistance call resumes
ComputeSettlesCall(i, outcome) ==
    /\ ComputeSettles(i, outcome)
    /\ call' = "settle"
    /\ UNCHANGED besideBridge

\* FrameAnalyzer._initNPU calls init() once; analyzeFrame calls go on while
\* it is pending, and suspended distance calls settle at any later time
NextAccelerated ==
    \/ \E data \in FrameInputs :
         nEvents < MaxAcceleratedFrames /\ AnalyzeCall(GoodSource(data))
    \/ \E mlPresent \in BOOLEAN : initReturns = << >> /\ BridgeInit(mlPresent)
    \/ \E ok \in BOOLEAN : CreateContext(ok)
    \/ \E built \in BOOLEAN : BuildSceneCutGraph(built)
    \/ PureJsFallback
    \/ \E i \in DOMAIN computing :
         \E outcome \in ComputeOutcomes(computing[i].hist1, computing[i].hist2) :
           ComputeSettlesCall(i, outcome)

SpecAccelerated == InitPage /\ [][NextAccelerated]_vars

----------------------------------------------------------------------------
(* The distance functions on histograms of any content *)

\* entries a histogram can hold, in thousandths
HistogramEntries == {0, 300, 1000}

\* three-bin histograms, normalised or not
SmallHistograms ==
    {<<a, b, c>> : a \in HistogramEntries, b \in HistogramEntries,
                   c \in HistogramEntries}

\* computeHistogramDistance calls on a bridge that has no graph: each
\* resolves to _jsHistogramDistance of its arguments
NextDistance ==
    \E hist1 \in SmallHistograms, hist2 \in SmallHistograms :
       framesProcessed < MaxDistanceCalls /\ DistanceCall(hist1, hist2, -1)

SpecDistance == Init /\ [][NextDistance]_vars

----------------------------------------------------------------------------
(* The popup, the stored settings and the content script's handlers *)

\* the number of user actions on the popup and the indicator
MaxControlCalls == 4

\* positions of the popup's range input (0..100 in steps of 1)
SliderPositions == {0, 1, 50, 100}

\* the slider position taken as the value itself
SliderFractionUndivided(position) == position * 1000

\* sensitivitySlider.value / 100, in thousandths
SliderFraction(position) == position * 10

\* (stored.nf_sensitivity ?? 0.5) * 100
SliderFor(value) == value \div 10

\* what start() sets up, on a page where init() returned before creating
\* the detector
InitNotStarted ==
    /\ startTime = now
    /\ lastScrollY = 0
    /\ lastScrollTime = now
    /\ lastDOMHeight = InitialHeight
    /\ isActive = FALSE
    /\ intervals = 0
    /\ observers = 0
    /\ scrollListeners = {}
    /\ scrollHandler = 0
    /\ nStarts = 0

\* the state after the content script's init() has read the stored
\* settings flag and value: with the flag off it returns before the detector
\* and the engine are created
InitLoaded(flag, value) ==
    /\ InitFade
    /\ dopamineScore = 0
    /\ scoreUpdates = << >>
    /\ storedEnabled = flag
    /\ storedSensitivity = value
    /\ enabled = flag
    /\ detectorExists = flag
    /\ InitBackground
    /\ sensitivity = IF flag THEN value ELSE 500
    /\ mainToggle = TRUE
    /\ sliderPosition = 50
    /\ popupOpen = FALSE
    /\ popupTasks = << >>
    /\ inbox = << >>
    /\ now = 0
    /\ IF flag THEN InitStarted ELSE InitNotStarted
    /\ InitAnalyzer
    /\ InitBridge
    /\ scrollEvents = << >>
    /\ domHeightChanges = << >>
    /\ videos = << >>
    /\ InitAudio
    /\ call = "init"
    /\ nCalls = 0
    /\ nTicks = 0
    /\ nEvents = 0

\* the settings a page load can find: what onInstalled wrote, or what
\* earlier popup and indicator actions left
InitSettings ==
    \E flag \in BOOLEAN, position \in SliderPositions :
       InitLoaded(flag, SliderFraction(position))

\* the popup page opens: its init() shows the stored settings
PopupOpens ==
    /\ ~popupOpen
    /\ popupOpen' = TRUE
    /\ mainToggle' = storedEnabled
    /\ sliderPosition' = SliderFor(storedSensitivity)
    /\ nCalls' = nCalls + 1
    /\ call' = "popupOpens"
    /\ UNCHANGED <<fadeVars, scoreVars, sensitivity, enabled, pageVars,
                   settingsVars, detectorExists, backgroundVars, popupTasks, inbox, nTicks>>

\* the popup page closes; handlers still waiting in it never resume
PopupCloses ==
    /\ popupOpen
    /\ popupOpen' = FALSE
    /\ mainToggle' = TRUE
    /\ sliderPosition' = 50
    /\ popupTasks' = << >>
    /\ call' = "popupCloses"
    /\ UNCHANGED <<fadeVars, scoreVars, sensitivity, enabled, pageVars,
                   settingsVars, detectorExists, backgroundVars, inbox, nCalls, nTicks>>

\* the user flips the popup's checkbox: the change handler reads it and
\* waits for chrome.tabs.query
MainToggleChange ==
    /\ popupOpen
    /\ mainToggle' = ~mainToggle
    /\ popupTasks' = Append(popupTasks, [type |-> "TOGGLE", value |-> mainToggle'])
    /\ nCalls' = nCalls + 1
    /\ call' = "change"
    /\ UNCHANGED <<fadeVars, scoreVars, sensitivity, enabled, pageVars,
                   settingsVars, detectorExists, backgroundVars, sliderPosition, popupOpen,
                   inbox, nTicks>>

\* the user moves the popup's slider: the input handler computes the value
\* and waits for chrome.tabs.query
SliderInput(position) ==
    /\ popupOpen
    /\ sliderPosition' = position
    /\ popupTasks' = Append(popupTasks, [type |-> "SET_SENSITIVITY",
                                         value |-> SliderFraction(position)])
    /\ nCalls' = nCalls + 1
    /\ call' = "input"
    /\ UNCHANGED <<fadeVars, scoreVars, sensitivity, enabled, pageVars,
                   settingsVars, detectorExists, backgroundVars, mainToggle, popupOpen,
                   inbox, nTicks>>

\* the oldest waiting popup handler resumes: it sends its message to the
\* tab and stores its value
PopupTaskResumes ==
    /\ popupTasks # << >>
    /\ inbox' = Append(inbox, Head(popupTasks))
    /\ popupTasks' = Tail(popupTasks)
    /\ IF Head(popupTasks).type = "TOGGLE"
         THEN /\ storedEnabled' = Head(popupTasks).value
              /\ UNCHANGED storedSensitivity
         ELSE /\ storedSensitivity' = Head(popupTasks).value
              /\ UNCHANGED storedEnabled
    /\ call' = "popupSends"
    /\ UNCHANGED <<fadeVars, scoreVars, sensitivity, enabled, pageVars,
                   detectorExists, backgroundVars, mainToggle, sliderPosition, popupOpen,
                   nCalls, nTicks>>

\* the content script's onMessage listener takes the oldest message
MessageHandled ==
    /\ inbox # << >>
    /\ inbox' = Tail(inbox)
    /\ IF Head(inbox).type = "TOGGLE"
         THEN ToggleHandled
         ELSE /\ IF detectorExists
                   THEN /\ sensitivity' = Head(inbox).value
                        /\ storedSensitivity' = Head(inbox).value
                   ELSE UNCHANGED <<sensitivity, storedSensitivity>>
              /\ UNCHANGED <<fadeVars, scoreVars, enabled, pageVars,
                             storedEnabled, detectorExists, backgroundVars, mainToggle,
                             sliderPosition, popupOpen, popupTasks, nTicks>>
    /\ call' = "message"
    /\ UNCHANGED nCalls

\* a click on the page's indicator, which exists when the detector does
IndicatorClick ==
    /\ detectorExists
    /\ ToggleHandled
    /\ nCalls' = nCalls + 1
    /\ call' = "click"
    /\ UNCHANGED inbox

NextControl ==
    \/ nCalls < MaxControlCalls /\ PopupOpens
    \/ PopupCloses
    \/ nCalls < MaxControlCalls /\ MainToggleChange
    \/ \E position \in SliderPositions :
         nCalls < MaxControlCalls /\ SliderInput(position)
    \/ PopupTaskResumes
    \/ MessageHandled
    \/ nCalls < MaxControlCalls /\ IndicatorClick

SpecControl == InitSettings /\ [][NextControl]_vars

----------------------------------------------------------------------------
(* The audio pipelines of the registered videos *)

\* audio intensities applyFade is called with, in millionths
IntensityInputs == {0, 100000, 333333, 500000, 750000, 999999, 1000000}

\* a caller's applyFade(video, intensity)
ApplyFadeCall(v, intensity) ==
    /\ v \in DOMAIN processors
    /\ processors' = [processors EXCEPT ![v] = ApplyFade(@, intensity)]
    /\ call' = "applyFade"
    /\ UNCHANGED <<currentEffects, targetEffects, isAnimating, animationFrame,
                   breatheMode, breatheTimers, playListeners, playbackRates,
                   nCalls, nTicks>>
    /\ UNCHANGED detectorVars

\* a paused video starts playing; the first time, the listener that
\* registerVideo added runs attach(video), which builds the pipeline or
\* catches the error of a failing Web Audio call
VideoPlays(v) ==
    /\ v \in DOMAIN videos
    /\ videos[v].paused
    /\ videos' = [videos EXCEPT ![v].paused = FALSE]
    /\ IF v \in playListeners
         THEN /\ \E ok \in BOOLEAN :
                   processors' = [processors EXCEPT ![v] = Attach(@, ok)]
              /\ playListeners' = playListeners \ {v}
              /\ UNCHANGED playbackRates
         ELSE UNCHANGED audioVars
    /\ call' = "play"
    /\ UNCHANGED <<currentEffects, targetEffects, isAnimating, animationFrame,
                   breatheMode, breatheTimers, scoreVars, sensitivity,
                   enabled, controlVars, now, startTime, analyzerVars,
                   scrollVars, lifeVars, bridgeVars, nEvents, nCalls, nTicks>>

\* a playing video is paused
VideoPauses(v) ==
    /\ v \in DOMAIN videos
    /\ ~videos[v].paused
    /\ videos' = [videos EXCEPT ![v].paused = TRUE]
    /\ call' = "pause"
    /\ UNCHANGED <<fadeVars, scoreVars, sensitivity, enabled, controlVars,
                   now, startTime, analyzerVars, scrollVars, lifeVars,
                   bridgeVars, nEvents, nCalls, nTicks>>

\* a page with one playing and one paused video, both registered
InitTwoVideos == InitWith(VideoSet(2, 1))

NextAudio ==
    \/ \E v \in {1, 2}, intensity \in IntensityInputs : ApplyFadeCall(v, intensity)
    \/ \E v \in {1, 2} : VideoPlays(v)
    \/ \E v \in {1, 2} : VideoPauses(v)

SpecAudio == InitTwoVideos /\ [][NextAudio]_vars

----------------------------------------------------------------------------
(* FadeEngine.destroy(), and ticks that raise *)

\* FadeEngine.destroy(): the pending frame is cancelled, then reset() runs
\* and requests a new one unless isAnimating is still set; the timers of
\* breathe() are left alone; every video's pipeline is detached, the
\* listeners registerVideo added stay.  The videos' styles and classes are
\* outside the state of this model.
Destroy ==
    /\ targetEffects' = NeutralEffects
    /\ isAnimating' = TRUE
    /\ animationFrame' = ~isAnimating
    /\ processors' = [v \in DOMAIN processors |-> Detach(processors[v])]
    /\ playbackRates' = [v \in DOMAIN playbackRates |-> Milli(1000)]
    /\ nCalls' = nCalls + 1
    /\ call' = "destroy"
    /\ UNCHANGED <<currentEffects, breatheMode, breatheTimers, playListeners,
                   nTicks>>
    /\ UNCHANGED detectorVars

\* step() when _applyEffects raises (a DOM or Web Audio call failing): the
\* channels have been stepped, the exception leaves the callback before
\* either requestAnimationFrame(step) or isAnimating = false is reached
AnimationStepRaises ==
    /\ animationFrame
    /\ currentEffects' =
         [k \in Channels |-> StepChannel(currentEffects[k], targetEffects[k])]
    /\ animationFrame' = FALSE
    /\ nTicks' = nTicks + 1
    /\ call' = "stepRaises"
    /\ UNCHANGED <<targetEffects, isAnimating, breatheMode, breatheTimers,
                   audioVars, nCalls>>
    /\ UNCHANGED detectorVars

\* a score tick whose onScoreUpdate callback raises after fadeEngine.update
\* (in updateIndicator or while the state message is built); the interval
\* stays scheduled
OnScoreUpdateRaises(score) ==
    /\ intervals > 0
    /\ enabled
    /\ dopamineScore' = score
    /\ scoreUpdates' = <<score>>
    /\ FadeUpdate(score)
    /\ nCalls' = nCalls + 1
    /\ call' = "updateRaises"
    /\ UNCHANGED <<sensitivity, enabled, intakeVars, nTicks>>

\* the effect controller with destroy() among the calls
NextTeardown ==
    \/ Next
    \/ nCalls < MaxCalls /\ Destroy
    \/ \E v \in {1, 2} : VideoPlays(v)

SpecTeardown == InitTwoVideos /\ [][NextTeardown]_vars

\* the effect controller with ticks that raise
NextFaults ==
    \/ Next
    \/ nTicks < MaxTicks /\ AnimationStepRaises
    \/ \E score \in ScoreInputs : nCalls < MaxCalls /\ OnScoreUpdateRaises(score)

SpecFaults == Init /\ [][NextFaults]_vars

----------------------------------------------------------------------------
(* The score-to-target mapping on its own: update(score) for scores on and *)
(* around the segment boundaries, with a few convergence ticks in between  *)

MaxCurveCalls == 2

MaxCurveTicks == 3

Boundaries == {LOW, MODERATE, HIGH, CRITICAL}

CurveScores ==
    {Points(b) : b \in Boundaries} \cup {Points(b) - 1 : b \in Boundaries}
      \cup {Points(p) : p \in {0, 10, 30, 50, 60, 75, 90, 100}}
      \cup {Points(100) - 1}

NextCurve ==
    \/ \E score \in CurveScores : nCalls < MaxCurveCalls /\ OnScoreUpdate(score)
    \/ nTicks < MaxCurveTicks /\ AnimationStep

SpecCurve == Init /\ [][NextCurve]_vars

----------------------------------------------------------------------------
(* Convergence toward a fixed target: one update(score) on a fresh engine, *)
(* then only convergence ticks                                             *)

\* scores whose channel differences do not decay to within the model's
\* resolution of the snap threshold
ConvScores == {Points(p) : p \in {30, 45, 50, 70, 90, 100}}

NextConv ==
    \/ \E score \in ConvScores : nCalls = 0 /\ OnScoreUpdate(score)
    \/ AnimationStep

SpecConv == Init /\ [][NextConv]_vars /\ WF_vars(AnimationStep)

----------------------------------------------------------------------------
(* Claims about the score aggregator (SpecScore) *)

\* C1: the aggregated score is within [0,100] after every score update, for
\* every combination of signals and every sensitivity the slider can send.
C1_ScoreBounded ==
    0 <= dopamineScore /\ dopamineScore <= 1000000

\* C1 witness: a score update has just run with a raw score above 100 and
\* the score has risen above 97
C1_Witness ==
    /\ call = "score"
    /\ RawScore > 1000000
    /\ dopamineScore > 970000

\* a step of the score interval's callback
ScoreTick == nCalls' = nCalls + 1 /\ call' = "score"

\* score = 0.15 * min(rawScore, 100) + 0.85 * previousScore with rawScore =
\* weighted sum * (0.5 + 1.5 * sensitivity), each up to the rounding of the
\* representation
FollowsSmoothingFormula ==
    /\ Abs(1000 * RawScore - WeightedSum * (500 + (3 * sensitivity) \div 2)) <= 500
    /\ Abs(100 * dopamineScore'
             - (15 * Min(RawScore, 1000000) + 85 * dopamineScore)) <= 100

----------------------------------------------------------------------------
(* Claims about the effect controller *)

\* the documented calming preset, written out
IsCalmingPreset(e) ==
    /\ e.grayscale = 600000
    /\ e.saturation = 400000
    /\ e.brightness = 850000
    /\ e.blur = 800000
    /\ e.playbackRate = 900000
    /\ e.audioIntensity = 500000

\* the neutral set, written out
IsNeutral(e) ==
    /\ e.grayscale = 0
    /\ e.saturation = 1000000
    /\ e.brightness = 1000000
    /\ e.blur = 0
    /\ e.playbackRate = 1000000
    /\ e.audioIntensity = 0

\* C3 (as claimed): while a breathe override is pending, a score update
\* leaves the effect target at the calming preset.
C3_PresetHeldAcrossScoreUpdates ==
    (breatheTimers # << >> /\ call = "update") => IsCalmingPreset(targetEffects)

\* C4 (as claimed): when the breathe override ends, the effect target is the
\* score-driven target of the most recent score.
C4_RestoreGivesCurrentScoreTarget ==
    call = "restore" => targetEffects = TargetFor(dopamineScore)

\* C5: right after breathe() returns, all six target channels hold the
\* documented preset, whatever the target was before.
C5_BreatheSetsPreset ==
    call = "breathe" => IsCalmingPreset(targetEffects)

\* C5 witness: breathe() has just run on a target that was not neutral
C5_Witness ==
    /\ call = "breathe"
    /\ ~IsNeutral(breatheTimers[Len(breatheTimers)])
    /\ ~IsCalmingPreset(breatheTimers[Len(breatheTimers)])

InRange(e) ==
    /\ 0 <= e.grayscale /\ e.grayscale <= 1000000
    /\ 200000 <= e.saturation /\ e.saturation <= 1000000
    /\ 700000 <= e.brightness /\ e.brightness <= 1000000
    /\ 0 <= e.blur /\ e.blur <= 1500000
    /\ 850000 <= e.playbackRate /\ e.playbackRate <= 1000000
    /\ 0 <= e.audioIntensity /\ e.audioIntensity <= 1000000

\* C8: in every reachable state the current and the target value of every
\* channel lie in the declared range of the channel.
C8_EffectsInRange ==
    InRange(currentEffects) /\ InRange(targetEffects)

\* C8 witness: in the middle of a convergence, after a breathe restore, with
\* the current values away from both the neutral set and the target
C8_Witness ==
    /\ call = "step"
    /\ nTicks >= 3
    /\ ~breatheMode /\ breatheTimers = << >> /\ nCalls = MaxCalls
    /\ \A k \in Channels : currentEffects[k] # targetEffects[k]
    /\ \A k \in Channels : currentEffects[k] # NeutralEffects[k]

----------------------------------------------------------------------------
(* Claims about the score-to-target mapping (SpecCurve) *)

\* the intensity update() has just used: the audioIntensity target
UsedIntensity == targetEffects.audioIntensity

\* C6: the intensity curve is 0 at 25, 0.25 at 45, 0.60 at 65, 0.85 at 85
\* and 1.0 at 100, is 0 below 25, never exceeds 1, and has no jump at a
\* segment boundary: one score unit below a boundary the intensity is
\* within two millionths of the boundary value.
C6_IntensityCurve ==
    call = "update" =>
      /\ dopamineScore = 250000 => UsedIntensity = 0
      /\ dopamineScore = 450000 => UsedIntensity = 250000
      /\ dopamineScore = 650000 => UsedIntensity = 600000
      /\ dopamineScore = 850000 => UsedIntensity = 850000
      /\ dopamineScore = 1000000 => UsedIntensity = 1000000
      /\ dopamineScore < 250000 => UsedIntensity = 0
      /\ UsedIntensity <= 1000000
      /\ dopamineScore = 249999 => Abs(UsedIntensity - 0) <= 2
      /\ dopamineScore = 449999 => Abs(UsedIntensity - 250000) <= 2
      /\ dopamineScore = 649999 => Abs(UsedIntensity - 600000) <= 2
      /\ dopamineScore = 849999 => Abs(UsedIntensity - 850000) <= 2

\* C6 witness: a second update() has just run, with a score one unit below
\* the HIGH boundary
C6_Witness ==
    /\ call = "update"
    /\ dopamineScore = 649999
    /\ UsedIntensity > 590000
    /\ nCalls = 2

\* C7: update(score) sets the targets by linear interpolation on intensity:
\* grayscale = intensity, saturation = 1 - 0.8*intensity, brightness =
\* 1 - 0.3*intensity, blur = 1.5*intensity, playbackRate = 1 - 0.15*intensity,
\* audioIntensity = intensity (each within half a millionth); below 25 the
\* targets are the neutral set; the playback-rate target is never below 0.85.
C7_TargetsInterpolated ==
    call = "update" =>
      LET i == UsedIntensity
          t == targetEffects
      IN  /\ t.grayscale = i
          /\ Abs(5 * (1000000 - t.saturation) - 4 * i) <= 2
          /\ Abs(10 * (1000000 - t.brightness) - 3 * i) <= 5
          /\ Abs(2 * t.blur - 3 * i) <= 1
          /\ Abs(20 * (1000000 - t.playbackRate) - 3 * i) <= 10
          /\ dopamineScore = 500000 => i = 337500
          /\ dopamineScore = 750000 => i = 725000
          /\ dopamineScore < 250000 => IsNeutral(t)
          /\ t.playbackRate >= 850000

\* C7 witness: update() has just run with score 100 and the targets are at
\* their extreme bounds
C7_Witness ==
    /\ call = "update"
    /\ dopamineScore = 1000000
    /\ targetEffects.saturation = 200000
    /\ targetEffects.playbackRate = 850000
    /\ targetEffects.blur = 1500000

----------------------------------------------------------------------------
(* Claims about convergence toward a fixed target (SpecConv) *)

\* a convergence tick with the target left as it was
FixedTargetTick ==
    /\ nTicks' = nTicks + 1
    /\ targetEffects' = targetEffects

\* C9: with a fixed target, each convergence tick strictly decreases
\* |current - target| on every channel that is not yet at its target, and
\* a running loop eventually stops with every channel exactly at its target.
C9_ConvergenceTerminates ==
    /\ [][FixedTargetTick =>
            \A k \in Channels :
              currentEffects[k] # targetEffects[k] =>
                Abs(targetEffects[k] - currentEffects'[k])
                  < Abs(targetEffects[k] - currentEffects[k])]_vars
    /\ (isAnimating ~>
          (~isAnimating /\ ~animationFrame /\ currentEffects = targetEffects))

\* C9 witness: the loop has stopped after a long convergence with every
\* channel at a target that differs from the neutral start
C9_Witness ==
    /\ ~isAnimating /\ ~animationFrame
    /\ nTicks > 100
    /\ currentEffects = targetEffects
    /\ \A k \in Channels : currentEffects[k] # NeutralEffects[k]

\* floor(0.001 / 0.94^n) in millionths, for n = 0, 1, 2, ...
DecayThresholds ==
    <<
       1000, 1063, 1131, 1203, 1280, 1362, 1449, 1542,
       1640, 1745, 1856, 1975, 2101, 2235, 2377, 2529,
       2691, 2863, 3045, 3240, 3447, 3667, 3901, 4150,
       4415, 4696, 4996, 5315, 5654, 6015, 6399, 6808,
       7242, 7705, 8196, 8720, 9276, 9868, 10498, 11168,
       11881, 12640, 13447, 14305, 15218, 16189, 17223, 18322,
       19492, 20736, 22060, 23468, 24966, 26559, 28255, 30058,
       31977, 34018, 36189, 38499, 40957, 43571, 46352, 49311,
       52458, 55807, 59369, 63158, 67190, 71478, 76041, 80895,
       86058, 91551, 97395, 103612, 110225, 117261, 124746, 132708,
       141179, 150190, 159777, 169976, 180825, 192367, 204646, 217709,
       231605, 246388, 262115, 278846, 296645, 315580, 335723, 357152,
       379949, 404201, 430001, 457448, 486647, 517710, 550755, 585910,
       623308, 663094, 705419, 750446, 798347, 849305, 903516, 961187,
       1022540, 1087808, 1157243, 1231109, 1309691, 1393288, 1482222, 1576831,
       1677480
    >>

\* ceil(log(d0 / 0.001) / log(1 / 0.94)): the least n with d0 * 0.94^n <= 0.001,
\* that is the number of n with d0 > 0.001 / 0.94^n
LogBound(d) ==
    Cardinality({n \in DOMAIN DecayThresholds : d > DecayThresholds[n]})

\* the initial difference of channel k on a fresh engine
InitialDiff(k) == Abs(targetEffects[k] - NeutralEffects[k])

\* C10 (as claimed): a channel with initial difference d0 > 0.001 is exactly
\* at its target after ceil(log(d0/0.001)/log(1/0.94)) ticks (112 for d0 = 1).
C10_SnappedWithinLogBound ==
    /\ LogBound(1000000) = 112
    /\ \A k \in Channels :
         (InitialDiff(k) > 1000 /\ nTicks >= LogBound(InitialDiff(k)))
            => currentEffects[k] = targetEffects[k]

\* C10 (amended): a channel with initial difference d0 > 0.001 is exactly at
\* its target after ceil(log(d0/0.001)/log(1/0.94)) + 1 ticks (113 for
\* d0 = 1): the tick that observes a remaining difference of at most 0.001
\* is the one that snaps.
C10_SnappedWithinLogBoundPlusOne ==
    /\ LogBound(1000000) = 112
    /\ \A k \in Channels :
         (InitialDiff(k) > 1000 /\ nTicks >= LogBound(InitialDiff(k)) + 1)
            => currentEffects[k] = targetEffects[k]

\* C10 witness: grayscale with d0 = 1 has just been snapped by tick 113
C10_Witness ==
    /\ InitialDiff("grayscale") = 1000000
    /\ nTicks = 113
    /\ currentEffects.grayscale = 1000000
    /\ isAnimating

----------------------------------------------------------------------------
(* The convergence loop and changes of target *)

\* C11: the convergence loop runs exactly while some channel's current value
\* differs from its target: whenever the loop is idle (not animating, no
\* frame requested) all six channels equal their targets, so every change of
\* target, by update(), breathe(), the breathe restore or reset(), has set
\* the loop running.
C11_IdleOnlyAtTarget ==
    (~isAnimating /\ ~animationFrame) => currentEffects = targetEffects

----------------------------------------------------------------------------
(* Claims about the trailing windows (SpecDetector) *)

\* the last analysed frame shares no histogram bin with the frame analysed
\* before it (black to white or back): the largest distance two frames can
\* have, 6 / 48 = 0.125
HardCutSampled ==
    /\ frameResult.kind = "sample"
    /\ frameResult.diff = 125000

C13_FastScrollsInsideWindow ==
    call = "score" =>
       \A i \in DOMAIN scrollEvents :
          scrollEvents[i].velocity > 800 => now - scrollEvents[i].time < 10000

\* C14: the DOM-change count used by a score update at time t counts only
\* height changes less than 10000 ms old, even if the height has not changed
\* again since.
C14_HeightChangesInsideWindow ==
    call = "score" =>
       \A i \in DOMAIN domHeightChanges : now - domHeightChanges[i] < 10000

----------------------------------------------------------------------------
(* Claims about analyzeFrame (SpecAnalyzer) *)

\* the source is absent, paused, ended, not ready, has zero width, or raises
\* while the frame is drawn or its pixels are read
Defective(v) ==
    \/ ~v.present
    \/ v.paused
    \/ v.ended
    \/ v.readyState < 2
    \/ v.videoWidth = 0
    \/ v.fault = "draw"
    \/ v.fault = "read"

----------------------------------------------------------------------------
(* Claims about stopping and tearing down *)

\* C16: after stop() has returned, whatever start() and stop() calls came
\* before, no score tick, DOM poll or scroll callback runs until the next
\* start(): the score, the scroll queue and the DOM-change queue do not
\* change (and onScoreUpdate, which only a score tick invokes, is not called).
C16_NothingRunsAfterStop ==
    [][~isActive => UNCHANGED <<dopamineScore, scrollEvents,
                                domHeightChanges>>]_vars

\* C17: after destroy() has returned nothing of the engine is pending any
\* more, neither a convergence frame nor a breathe-restore timer, whether
\* destroy() was called while the loop was animating, idle, or during a
\* breathe override: effect state is not changed after teardown.
C17_NothingPendingAfterDestroy ==
    call = "destroy" => (~animationFrame /\ breatheTimers = << >>)

\* C18: an exception raised inside a periodic activity does not halt later
\* ticks: after a convergence tick that raised, the loop either still has a
\* frame requested or is marked idle so that the next update() restarts it,
\* and after a score tick whose callback raised the score interval is still
\* running.
C18_RaisingTickHaltsNothing ==
    /\ call = "stepRaises" => (animationFrame \/ ~isAnimating)
    /\ call = "updateRaises" => intervals > 0

----------------------------------------------------------------------------
(* Claims about the NPUBridge *)

\* the histograms of an all-black and of an all-white frame
BlackHistogram == [i \in 1..48 |-> IF i \in {1, 17, 33} THEN 1000 ELSE 0]
WhiteHistogram == [i \in 1..48 |-> IF i \in {16, 32, 48} THEN 1000 ELSE 0]

\* C19: computeHistogramDistance never rejects because of the backend: every
\* call resolves, and a call made without a graph, or whose graph.compute
\* raised, resolves to exactly the synchronous reference distance of its two
\* histograms (0.125 for a black against a white frame, 0 for equal ones).
C19_FallsBackToReference ==
    distance.settled # "none" =>
      /\ distance.settled = "resolved"
      /\ (~distance.graph \/ distance.raised) =>
           /\ distance.value = HistogramDiff(distance.hist1, distance.hist2)
           /\ (distance.hist1 = BlackHistogram /\ distance.hist2 = WhiteHistogram)
                => distance.value = 125000
           /\ distance.hist1 = distance.hist2 => distance.value = 0

\* a graph was built, its compute raised, the call resolved to 0.125
C19_Witness ==
    /\ call = "distance"
    /\ distance.graph /\ distance.raised
    /\ distance.hist1 = BlackHistogram /\ distance.hist2 = WhiteHistogram
    /\ distance.settled = "resolved" /\ distance.value = 125000

SelectionOrder == <<"npu", "gpu", "cpu">>

\* what holds of the bridge's fields in every state of a selection
SelectionState ==
    /\ Len(tried) <= 3
    /\ \A i \in DOMAIN tried : tried[i] = SelectionOrder[i]
    /\ available => /\ tried # << >>
                    /\ backend = tried[Len(tried)]
                    /\ context = backend
    /\ (initialized /\ ~available) => /\ backend = "cpu"
                                      /\ context = "null"
                                      /\ ~graph
                                      /\ Len(tried) \in {0, 3}
    /\ (initPc = "idle") => (initialized <=> initReturns # << >>)
    /\ \A i \in DOMAIN initReturns : initReturns[i] = available

\* C20: init() tries NPU, then GPU, then CPU WebNN, stops at the first
\* context creation that succeeds and records that device as backend with
\* available = true; when WebNN is absent or every attempt fails it ends
\* with available = false, backend "cpu" and no graph; every init() that has
\* returned left initialized = true; once a context was created no further
\* attempt is made, and a later init() changes none of the fields and
\* returns the same availability.
C20_InitSelectsFirstBackend ==
    /\ []SelectionState
    /\ [][available => tried' = tried]_vars
    /\ [][initialized => UNCHANGED <<available, backend, context, graph,
                                     initialized, tried>>]_vars

\* GPU selected after the NPU attempt failed, and a later init() returned
\* true again without another attempt
C20_Witness ==
    /\ call = "bridgeInit"
    /\ initialized /\ available /\ backend = "gpu"
    /\ tried = <<"npu", "gpu">>
    /\ initReturns = <<TRUE, TRUE>>

----------------------------------------------------------------------------
(* Claims about the distance and the accelerated backend *)

\* the reference distance of two of the frame pictures: 0 for equal ones,
\* 0.125 for black against white, 2/48 for the half picture against either
PictureDistance(d1, d2) ==
    IF d1 = d2 THEN 0
    ELSE IF <<0, 255>> \in {d1, d2} THEN 41667
    ELSE 125000

C22_DistanceAlgebra ==
    (distance.settled = "resolved" /\ ~distance.graph) =>
      LET h1 == distance.hist1
          h2 == distance.hist2
      IN  /\ distance.value = HistogramDiff(h1, h2)
          /\ HistogramDiff(h1, h2) = HistogramDiff(h2, h1)
          /\ JsHistogramDistance(h2, h1) = distance.value
          /\ distance.value >= 0
          /\ h1 = h2 => distance.value = 0
          /\ (h1 = <<1000, 0, 0>> /\ h2 = <<0, 0, 1000>>)
               => distance.value = 666667
          /\ (\A i \in DOMAIN h1 : h1[i] = 0 \/ h2[i] = 0) =>
               3 * distance.value - 1000 * (h1[1] + h1[2] + h1[3]
                                            + h2[1] + h2[2] + h2[3])
                 \in -2..2

\* two different histograms sharing an empty bin were compared
C22_Witness ==
    /\ call = "distance"
    /\ distance.hist1 = <<1000, 0, 0>> /\ distance.hist2 = <<0, 0, 1000>>
    /\ distance.value = 666667

----------------------------------------------------------------------------
(* Claims about the settings *)

\* C23: the detector's sensitivity, and the stored value a later page load
\* starts from, are within [0, 1] after initialisation from the stored
\* settings and after any sequence of slider inputs, so the multiplier
\* 0.5 + 1.5 * sensitivity is within [0.5, 2.0].
C23_SensitivityInRange ==
    /\ sensitivity >= 0 /\ sensitivity <= 1000
    /\ storedSensitivity >= 0 /\ storedSensitivity <= 1000
    /\ 500 + (3 * sensitivity) \div 2 \in 500..2000

\* the slider's top position has reached the detector
C23_Witness ==
    /\ call = "message"
    /\ detectorExists
    /\ sensitivity = 1000 /\ storedSensitivity = 1000

----------------------------------------------------------------------------
(* Claims about the audio pipelines *)

\* C24: on every video with a pipeline the three ramps end at the values of
\* the last applied intensity i in [0, 1]: cutoff 20000 - 18000 i Hz, within
\* [2000, 20000]; shelf gain -12 i dB; gain 1 - 0.15 i; (20000, 0, 1) at
\* i = 0 and (2000, -12, 0.85) at i = 1.  A video without a pipeline holds
\* nothing: applyFade has changed nothing for it.
C24_ApplyFadeTargets ==
    \A v \in DOMAIN processors :
       LET p == processors[v]
           i == p.currentIntensity
       IN  IF p.attached
             THEN /\ 1000 * (20000 - p.cutoff) - 18 * i \in -500..500
                  /\ p.cutoff >= 2000 /\ p.cutoff <= 20000
                  /\ 1000 * p.shelfGain + 12 * i \in -500..500
                  /\ 100 * (1000000 - p.gain) - 15 * i \in -50..50
                  /\ i = 0 => (p.cutoff = 20000 /\ p.shelfGain = 0
                               /\ p.gain = 1000000)
                  /\ i = 1000000 => (p.cutoff = 2000 /\ p.shelfGain = -12000
                                     /\ p.gain = 850000)
             ELSE p.cutoff = 0 /\ p.shelfGain = 0 /\ p.gain = 0 /\ i = 0

\* full intensity applied to a video with a pipeline while the other has none
C24_Witness ==
    /\ call = "applyFade"
    /\ processors[1].attached /\ processors[1].currentIntensity = 1000000
    /\ processors[1].cutoff = 2000
    /\ ~processors[2].attached

\* no video has a pipeline
NoPipelines == \A v \in DOMAIN processors : ~processors[v].attached

\* C26: when destroy() returns no registered video has an audio pipeline,
\* and none gets one in the step that follows, such as a registered video
\* that had not played yet starting to play.
C26_NoPipelineAfterDestroy ==
    /\ [](call = "destroy" => NoPipelines)
    /\ [][call = "destroy" => NoPipelines']_vars

----------------------------------------------------------------------------
(* Claims about the documented score weights (SpecScore) *)

\* the blend of the README's table: scene cuts 35%, scroll velocity 25%,
\* time on page 15%, content changes 15%, active videos 10%
DocumentedBlend ==
    MulPct(SceneCutScore, 35)
      + MulPct(ScrollScore, 25)
      + MulPct(TimeScore, 15)
      + MulPct(ContentChangeScore, 15)
      + MulPct(VideoScore, 10)

\* C25: the composite raw score of every score update is the blend of the
\* five sub-scores with the documented weights 35% / 25% / 15% / 15% / 10%,
\* so the smoothed score that the update stores is the one that blend gives
\* (up to the rounding of the representation).
C25_DocumentedWeights ==
    [][ScoreTick =>
         Abs(dopamineScore'
               - Smoothed(MulMilli(DocumentedBlend,
                                   500 + MulMilli(sensitivity, 1500)),
                          dopamineScore)) <= 2]_vars

----------------------------------------------------------------------------
(* Claims about overlapping breathe overrides and disabling (Spec) *)

\* C27: after a breathe() that was triggered while an earlier override was
\* pending, the callback that leaves no breathe timer pending does not leave
\* the effect target at the calming preset.
C27_OverlapRestoresEarlierTarget ==
    (call = "restore" /\ breatheTimers = << >>)
        => ~IsCalmingPreset(targetEffects)

\* C28: the breatheMode flag that getState() reports is true exactly while
\* at least one breathe timer is pending.
C28_FlagTracksPendingTimers ==
    breatheMode <=> (breatheTimers # << >>)

\* C29: while the system is disabled, a breathe timer that fires leaves the
\* neutral targets that reset() has set as they are: an override that was
\* pending at the moment of disabling does not bring another target back.
C29_NeutralWhileDisabled ==
    [][(~enabled /\ IsNeutral(targetEffects) /\ call' = "restore")
         => IsNeutral(targetEffects')]_vars

----------------------------------------------------------------------------
(* Claims about the enabled flag and its stored copy (SpecControl) *)

\* a TOGGLE message that the popup has sent and the content script has not
\* handled yet
ToggleInFlight == \E i \in DOMAIN inbox : inbox[i].type = "TOGGLE"

----------------------------------------------------------------------------
(* Claims about enabling a page that was loaded disabled (SpecControl) *)

\* C31: whenever the content script's flag is on, also after a TOGGLE that
\* turned it on in a page that was loaded with the stored flag off,
\* monitoring runs: a detector exists, it is active and its score interval
\* is set.
C31_EnabledMeansMonitoring ==
    enabled => (detectorExists /\ isActive /\ intervals > 0)

----------------------------------------------------------------------------
(* The playback rate of a registered video while the effects rise and fall *)

\* score updates per behaviour of the playback-rate specification
MaxRateCalls == 2

\* the scores of that specification: none of the effects, all of them
RateScores == {Points(0), Points(100)}

\* a page with one registered video, which is playing
InitOneVideo == InitWith(VideoSet(1, 1))

\* score updates that find the effects settled, the convergence ticks after
\* them, and the video being paused and played at any moment
NextRates ==
    \/ \E score \in RateScores :
         nCalls < MaxRateCalls /\ ~isAnimating /\ OnScoreUpdate(score)
    \/ AnimationStep
    \/ VideoPlays(1)
    \/ VideoPauses(1)

SpecRates == InitOneVideo /\ [][NextRates]_vars

\* C32: whenever the effects have converged to neutral (the current
\* playbackRate channel is 1 and the convergence loop is idle), every
\* registered video that is playing has playbackRate exactly 1.
C32_NeutralMeansNormalSpeed ==
    (currentEffects.playbackRate = 1000000 /\ ~isAnimating)
        => \A v \in DOMAIN videos :
              (~videos[v].paused /\ ~videos[v].ended)
                  => playbackRates[v] = 1000000

----------------------------------------------------------------------------
(* Video discovery: _registerVideo and FadeEngine.registerVideo *)

\* a has() test that never finds the video
NeverRegistered(v) == FALSE

\* this.videos.has(video) of NeuroFadeDetector._registerVideo
AlreadyRegistered(v) == v \in DOMAIN videos

\* FadeEngine.registerVideo(video) for an element whose paused flag is
\* paused: nothing for a video of the engine's set; else the once-only
\* 'play' listener is added and, when the video is not paused, attach runs
EngineRegisterVideo(v, paused, ok) ==
    IF v \in DOMAIN processors
      THEN UNCHANGED audioVars
      ELSE /\ processors' =
                [u \in DOMAIN processors \cup {v} |->
                   IF u # v THEN processors[u]
                   ELSE IF paused THEN NoProcessor(FALSE)
                   ELSE Attach(NoProcessor(FALSE), ok)]
           /\ playListeners' = playListeners \cup {v}
           /\ playbackRates' =
                [u \in DOMAIN playbackRates \cup {v} |->
                   IF u # v THEN playbackRates[u] ELSE Milli(1000)]

\* _registerVideo(video), called by a connected mutation observer for the
\* element v, which is a registered one or the next new one of the
\* page; onVideoDetected is the content script's fadeEngine.registerVideo
RegisterVideo(v, paused, ok) ==
    /\ observers > 0
    /\ v \in 1..(Len(videos) + 1)
    /\ IF AlreadyRegistered(v)
         THEN UNCHANGED <<videos, detections, audioVars>>
         ELSE /\ videos' =
                   [u \in DOMAIN videos \cup {v} |->
                      IF u \in DOMAIN videos THEN videos[u]
                      ELSE [paused |-> paused, ended |-> FALSE]]
              /\ detections' =
                   [u \in DOMAIN detections \cup {v} |->
                      IF u \in DOMAIN detections THEN detections[u]
                                                   + (IF u = v THEN 1 ELSE 0)
                      ELSE 1]
              /\ EngineRegisterVideo(v, videos'[v].paused, ok)
    /\ nEvents' = nEvents + 1
    /\ call' = "register"
    /\ UNCHANGED <<currentEffects, targetEffects, isAnimating, animationFrame,
                   breatheMode, breatheTimers, scoreVars, sensitivity,
                   enabled, controlVars, now, startTime, analyzerVars,
                   scrollVars, isActive, intervals, observers,
                   scrollListeners, scrollHandler, nStarts, bridgeVars,
                   nCalls, nTicks>>

\* discoveries per behaviour, and the video elements of the page
MaxDiscoveries == 4
MaxVideos == 2

\* intensities applyFade is called with in this specification
DiscoveryIntensities == {0, 500000}

\* videos being discovered (also repeatedly), played and paused, the engine
\* applying an intensity, and one destroy()
NextVideos ==
    \/ \E v \in 1..MaxVideos, paused \in BOOLEAN, ok \in BOOLEAN :
         nEvents < MaxDiscoveries /\ RegisterVideo(v, paused, ok)
    \/ \E v \in 1..MaxVideos : VideoPlays(v)
    \/ \E v \in 1..MaxVideos : VideoPauses(v)
    \/ \E v \in 1..MaxVideos, intensity \in DiscoveryIntensities :
         ApplyFadeCall(v, intensity)
    \/ nCalls = 0 /\ Destroy

SpecVideos == Init /\ [][NextVideos]_vars

\* C39: onVideoDetected has run exactly once for every registered video,
\* however often the video was discovered, and a call of attach (from
\* registerVideo for a playing video, or from the 'play' listener) builds a
\* pipeline only for a video that has none and never had one: no video ever
\* gets a second pipeline.
C39_RegisteredOnce ==
    /\ [](\A v \in DOMAIN videos : detections[v] = 1)
    /\ [][\A v \in DOMAIN processors :
            (call' \in {"register", "play"} /\ processors'[v] # processors[v])
               => (~processors[v].attached /\ ~processors[v].sourced
                     /\ processors'[v].attached)]_vars

\* C39 witness: a video that was registered while playing (attach ran), whose
\* pipeline has since been set to intensity 0.5, has just been played again
\* after a pause, which ran the 'play' listener and attach a second time
C39_Witness ==
    /\ call = "play"
    /\ 1 \in DOMAIN processors
    /\ 1 \notin playListeners
    /\ processors[1].attached
    /\ processors[1].currentIntensity = 500000

----------------------------------------------------------------------------
(* Who changes the score: every intake event, control call and tick of a   *)
(* monitored page                                                          *)

\* intake events and control calls per behaviour
MaxOwnerEvents == 2
MaxOwnerCalls == 2

NextOwner ==
    \/ \E y \in ScrollPositions : nEvents < MaxOwnerEvents /\ ScrollEvent(y)
    \/ \E h \in PageHeights : nEvents < MaxOwnerEvents /\ DomPoll(h)
    \/ \E data \in FrameInputs :
         nEvents < MaxOwnerEvents /\ FrameTick(GoodSource(data))
    \/ \E v \in {1, 2}, paused \in BOOLEAN, ok \in BOOLEAN :
         nEvents < MaxOwnerEvents /\ RegisterVideo(v, paused, ok)
    \/ nCalls < MaxOwnerCalls /\ UpdateDopamineScore
    \/ nCalls < MaxOwnerCalls /\ Breathe
    \/ BreatheTimeout
    \/ nCalls < MaxOwnerCalls /\ Toggle
    \/ \E value \in SensitivityInputs :
         nCalls < MaxOwnerCalls /\ SetSensitivity(value)

SpecOwner == InitPage /\ [][NextOwner]_vars

\* C33: only the score tick changes the score: a step of any other kind
\* (scroll event, DOM-height poll, frame tick, video registration, breathe,
\* toggle, set-sensitivity) leaves it as it is; and while the detector is
\* disabled no step is a score tick, the score keeps its value, the effect
\* target is not set from a score, and the frame analyzer is not run.
C33_OnlyTheTickChangesTheScore ==
    [][/\ dopamineScore' # dopamineScore => call' = "score"
       /\ ~enabled =>
            /\ dopamineScore' = dopamineScore
            /\ call' \notin {"score", "update"}
            /\ <<sceneCuts, motionScores, previousHistogram, lastFrameData,
                 frameCount>>' =
               <<sceneCuts, motionScores, previousHistogram, lastFrameData,
                 frameCount>>]_vars

\* C33 witness: with a score above 0 from an earlier tick and the detector
\* disabled since, a frame interval has just fired for a playing video
C33_Witness ==
    /\ call = "frame"
    /\ ~enabled
    /\ dopamineScore > 0
    /\ HasActiveVideo
    /\ frameCount = 0

----------------------------------------------------------------------------
(* Claims about the notification of a score tick (SpecScore) *)

\* C34: a score tick of the enabled detector invokes onScoreUpdate exactly
\* once, with the score the tick has just stored, and the effect controller's
\* update has run with that score when the tick ends: the effect target is
\* the one of the new score.
C34_TickNotifiesOnceWithNewScore ==
    [][call' = "score" =>
         /\ enabled
         /\ scoreUpdates' = <<dopamineScore'>>
         /\ targetEffects' = TargetFor(dopamineScore')]_vars

\* C34 witness: a tick has just stored a score of 25 or more, its one
\* notification carries that score and the effect target is no longer neutral
C34_Witness ==
    /\ call = "score"
    /\ Len(scoreUpdates) = 1
    /\ scoreUpdates[1] = dopamineScore
    /\ dopamineScore >= 250000
    /\ ~IsNeutral(targetEffects)

----------------------------------------------------------------------------
(* The service worker: UPDATE_SCORE messages and trackSession *)

\* UPDATE_SCORE messages per behaviour
MaxUpdates == 3

\* the tabs that send them, and the rounded scores they carry
Tabs == {1, 2}
UpdateScores == {10, 25, 80}

\* the significance threshold of trackSession, in points
SignificantScore == 25

\* onMessage UPDATE_SCORE from a tab: the tab's state and badge are set
\* (outside this model) and trackSession(tabId, data) runs up to its first
\* await: it returns for a score below 25, else it asks the storage for the
\* sessions and the counter
UpdateScoreReceived(tab, score) ==
    /\ IF score < SignificantScore
         THEN UNCHANGED <<trackSessions, nTracked>>
         ELSE /\ trackSessions' =
                   Append(trackSessions,
                          [tabId |-> tab, score |-> score, pc |-> "get",
                           interventions |-> 0])
              /\ nTracked' = nTracked + 1
    /\ nEvents' = nEvents + 1
    /\ call' = "updateScore"
    /\ UNCHANGED <<fadeVars, scoreVars, sensitivity, enabled, settingsVars,
                   detectorExists, popupVars, totalInterventions, now,
                   startTime, videos, analyzerVars, scrollVars, lifeVars,
                   bridgeVars, nCalls, nTicks>>

\* the positions of the calls that wait at pc
WaitingAt(pc) == {i \in DOMAIN trackSessions : trackSessions[i].pc = pc}

\* the least element of a non-empty set of positions
Oldest(S) == CHOOSE i \in S : \A j \in S : i <= j

\* chrome.storage.local serves the oldest get() that is waiting: the call's
\* result holds the counter as it is stored now
StorageGetServed ==
    /\ WaitingAt("get") # {}
    /\ trackSessions' =
         [trackSessions EXCEPT ![Oldest(WaitingAt("get"))] =
            [@ EXCEPT !.pc = "got", !.interventions = totalInterventions]]
    /\ call' = "storageGet"
    /\ UNCHANGED <<fadeVars, scoreVars, sensitivity, enabled, settingsVars,
                   detectorExists, popupVars, totalInterventions, nTracked,
                   pageVars, nCalls, nTicks>>

\* a sequence without its i-th element
Without(s, i) == [j \in 1..(Len(s) - 1) |-> IF j < i THEN s[j] ELSE s[j + 1]]

\* the oldest call whose get() was served resumes after its await: it
\* updates the sessions and stores interventions + 1, interventions being
\* what its get() returned
TrackSessionResumes ==
    /\ WaitingAt("got") # {}
    /\ LET i == Oldest(WaitingAt("got"))
       IN  /\ totalInterventions' = trackSessions[i].interventions + 1
           /\ trackSessions' = Without(trackSessions, i)
    /\ call' = "storageSet"
    /\ UNCHANGED <<fadeVars, scoreVars, sensitivity, enabled, settingsVars,
                   detectorExists, popupVars, nTracked, pageVars, nCalls,
                   nTicks>>

NextBackground ==
    \/ \E tab \in Tabs, score \in UpdateScores :
         nEvents < MaxUpdates /\ UpdateScoreReceived(tab, score)
    \/ StorageGetServed
    \/ TrackSessionResumes

SpecBackground == Init /\ [][NextBackground]_vars

\* C35: whenever no trackSession call is running, the stored
\* total-interventions counter equals the number of UPDATE_SCORE messages
\* handled so far whose score was at least 25.
C35_NoInterventionLost ==
    trackSessions = << >> => totalInterventions = nTracked

----------------------------------------------------------------------------
(* Claims about the first frame and reset() of the frame analyzer           *)
(* (SpecAnalyzer)                                                           *)

\* C36: the first frame analysed by a fresh analyzer, or after reset(), is
\* no scene cut and has motion 0; and reset() leaves the analyzer as a fresh
\* instance is: no previous histogram, no frame buffer, no cuts, no motion
\* scores, frame count 0 (so getMetrics() is zero throughout).
C36_FirstFrameAndReset ==
    /\ (call = "analyze" /\ frameResult.kind = "sample"
          /\ frameResult.frameCount = 1)
         => (~frameResult.isSceneCut /\ frameResult.motionScore = 0
               /\ frameResult.avgMotion = 0 /\ frameResult.cutRate = 0)
    /\ call = "analyzerReset"
         => /\ previousHistogram = << >>
            /\ lastFrameData = << >>
            /\ sceneCuts = << >>
            /\ motionScores = << >>
            /\ frameCount = 0

\* C36 witness: after an earlier frame and a reset(), a white frame has
\* been analysed as the first one again
C36_Witness ==
    /\ call = "analyze"
    /\ nEvents >= 3
    /\ frameResult.kind = "sample"
    /\ frameResult.frameCount = 1
    /\ lastFrameData = <<255, 255>>

----------------------------------------------------------------------------
(* Claims about the direction of the smoothing (SpecScore) *)

\* C37: a score tick moves the score toward the clamped raw score r =
\* min(rawScore, 100) and not across it: from a score at or below r the new
\* score lies between the old score and r, from a score at or above r between
\* r and the old score (each up to one unit of the representation's rounding).
C37_NoOvershoot ==
    [][call' = "score" =>
         LET r == Min(RawScore, 1000000)
         IN  /\ dopamineScore <= r =>
                  (dopamineScore - 1 <= dopamineScore' /\ dopamineScore' <= r + 1)
             /\ dopamineScore >= r =>
                  (r - 1 <= dopamineScore' /\ dopamineScore' <= dopamineScore + 1)]_vars

\* C37 witness: a second or later tick has just run and the score is still
\* above the clamped raw score it is decaying toward
C37_Witness ==
    /\ call = "score"
    /\ nCalls >= 2
    /\ Min(RawScore, 1000000) + 100000 < dopamineScore
    /\ dopamineScore < 960000

----------------------------------------------------------------------------
(* Claims about the range of the sub-scores (SpecScore) *)

\* the scroll events faster than 800 px/s, and the videos that play
FastScrollCount ==
    Cardinality({i \in DOMAIN scrollEvents : scrollEvents[i].velocity > 800})
ActiveVideoCount ==
    Cardinality({v \in DOMAIN videos : ~videos[v].paused /\ ~videos[v].ended})

\* C38: each of the five sub-scores lies in [0,100]; the scroll, content-change
\* and active-video scores are min(count / 5, 1), min(count / 20, 1) and
\* min(count / 3, 1) times 100; and the weighted sum before the sensitivity
\* multiplier lies in [0,100] as well.
C38_SubScoresInRange ==
    /\ \A x \in {SceneCutScore, ScrollScore, TimeScore, ContentChangeScore,
                 VideoScore, WeightedSum} : 0 <= x /\ x <= 1000000
    /\ ScrollScore = Min(200000 * FastScrollCount, 1000000)
    /\ ContentChangeScore = Min(50000 * Len(domHeightChanges), 1000000)
    /\ Abs(3 * VideoScore - Min(1000000 * ActiveVideoCount, 3000000)) <= 3

\* C38 witness: a score tick has run on a page with more than five fast
\* scrolls in the window, where the scroll score is capped at 100
C38_Witness ==
    /\ call = "score"
    /\ FastScrollCount > 5
    /\ ScrollScore = 1000000
    /\ WeightedSum >= 250000

====
